---- MODULE Spec2Model ----
(***************************************************************************)
(* Valdix: a runtime schema validation engine.                             *)
(*                                                                         *)
(* A schema node is a record with a `kind`; `_parse` is the recursive      *)
(* descent of src/core/schema.ts and src/schemas/*.ts over a parse         *)
(* context (path stack, issue list, settings).  JavaScript values are      *)
(* tagged records, path segments are tagged records (string key or         *)
(* integer index), user callbacks are identified by name and their         *)
(* behaviour is given by a table (including callbacks that throw).         *)
(***************************************************************************)
EXTENDS Integers, Sequences, FiniteSets, TLC

VARIABLES schema, input, ctx0, nodeRes, safeRes, parseRes,   \* one schema, one input, its calls
          nodes, store, built,                               \* nodes made by builder calls
          regex, runs, alone,                                \* a stored RegExp and the parses using it
          error, lookup,                                     \* a ValdixError and the last lookup on it
          tasks, contexts,                                   \* calls in progress on one schema
          objects, arrays, history,                          \* context objects and their arrays
          globals, pending                                        \* process-wide configuration, one async call

parseVars == <<schema, input, ctx0, nodeRes, safeRes, parseRes>>
builderVars == <<nodes, store, built>>
regexVars == <<regex, runs, alone>>
errorVars == <<error, lookup>>
taskVars == <<tasks, contexts>>
contextVars == <<objects, arrays, history>>
asyncVars == <<globals, pending>>
vars == <<parseVars, builderVars, regexVars, errorVars, taskVars, contextVars, asyncVars>>

(***************************************************************************)
(* Bounds of the explored universe.                                        *)
(***************************************************************************)
MaxLen == 3        \* longest array / set / map input
MaxNum == 1        \* numbers range over -1 .. MaxNum

(***************************************************************************)
(* JavaScript values.                                                      *)
(***************************************************************************)
\* Every payload field has its own name, so two values of different types
\* never have a field in common besides the tag.
Undef == [t |-> "undefined"]
Null == [t |-> "null"]
NaN == [t |-> "nan"]
Sym == [t |-> "symbol"]
Bool(b) == [t |-> "boolean", b |-> b]
Num(n) == [t |-> "number", n |-> n]
Str(s) == [t |-> "string", s |-> s]
Arr(items) == [t |-> "array", items |-> items]
Obj(props) == [t |-> "object", props |-> props]        \* <<key, value>> pairs in key order
SetV(members) == [t |-> "set", members |-> members]    \* insertion order
MapV(entries) == [t |-> "map", entries |-> entries]    \* <<key, value>> in insertion order
BigV(n) == [t |-> "bigint", n |-> n]
DateV(time) == [t |-> "date", valid |-> TRUE, time |-> time]       \* getTime() is time
InvalidDate == [t |-> "date", valid |-> FALSE, time |-> 0]         \* getTime() is NaN

\* An array, Set or Map that a node allocates for its output (new Array, new
\* Set, new Map) is marked, so that it is told apart from the input object
\* that another node hands through untouched.
NewArr(items) == [t |-> "array", items |-> items, allocated |-> TRUE]
NewSetV(members) == [t |-> "set", members |-> members, allocated |-> TRUE]
NewMapV(entries) == [t |-> "map", entries |-> entries, allocated |-> TRUE]

\* typeof value
typeOf(x) ==
  CASE x.t = "undefined" -> "undefined"
    [] x.t = "boolean" -> "boolean"
    [] x.t \in {"number", "nan"} -> "number"
    [] x.t = "string" -> "string"
    [] x.t = "symbol" -> "symbol"
    [] x.t = "bigint" -> "bigint"
    [] OTHER -> "object"

getValueType(x) ==
  CASE x.t = "null" -> "null"
    [] x.t = "array" -> "array"
    [] x.t = "date" -> "date"
    [] x.t = "set" -> "set"
    [] x.t = "map" -> "map"
    [] OTHER -> typeOf(x)

isPlainObject(x) == x.t = "object"

\* Object.keys(obj): keys of the pair list in order
ObjectKeys(pairs) == [i \in 1..Len(pairs) |-> pairs[i][1]]

hasOwn(pairs, key) == \E i \in 1..Len(pairs) : pairs[i][1] = key

\* obj[key]
GetProp(pairs, key) ==
  IF hasOwn(pairs, key)
    THEN pairs[CHOOSE i \in 1..Len(pairs) : pairs[i][1] = key][2]
    ELSE Undef

\* obj[key] = value : replaces in place, or appends a new key
SetProp(pairs, key, value) ==
  IF hasOwn(pairs, key)
    THEN [i \in 1..Len(pairs) |-> IF pairs[i][1] = key THEN <<key, value>> ELSE pairs[i]]
    ELSE Append(pairs, <<key, value>>)

\* Object.is, and the SameValueZero of Set.has, on primitives.  Objects and
\* arrays are compared by reference; every object or array a node outputs is
\* a fresh allocation, so two of them are never the same key.
ObjectIs(a, b) == a = b /\ a.t \notin {"object", "array", "set", "map"}

(***************************************************************************)
(* Path segments and issues.                                               *)
(***************************************************************************)
Key(s) == [k |-> "key", s |-> s]
Idx(i) == [k |-> "idx", i |-> i]

NoInfo == [none |-> TRUE]
NoMessage == <<>>

\* IssueInput: code, code-specific fields, optional explicit message, optional path suffix
IssueInput(code, info) == [code |-> code, info |-> info, message |-> NoMessage, path |-> <<>>]
IssueInputMsg(code, info, text) == [code |-> code, info |-> info, message |-> <<text>>, path |-> <<>>]

(***************************************************************************)
(* Process-wide configuration and message resolution.                      *)
(***************************************************************************)
\* an ErrorMap is named; NoMap stands for undefined.  `locales` holds the
\* names of the registered catalogs.
NoMap == "none"
globalConfig == [locale |-> "id", abortEarly |-> FALSE, errorMap |-> NoMap, locales |-> {"en", "id"}]
LocaleRegistry == globalConfig.locales
FallbackLocale == "en"
getParseDefaults(config) ==
  [locale |-> config.locale, abortEarly |-> config.abortEarly, errorMap |-> config.errorMap]
GlobalDefaults == getParseDefaults(globalConfig)

\* resolveDefaultMessage: the active catalog's text for the code, else the
\* fallback catalog's.  A catalog text is identified by <<locale, code>>.
resolveDefaultMessage(locale, issue, localeRegistry) ==
  IF locale \in localeRegistry THEN <<locale, issue.code>> ELSE <<FallbackLocale, issue.code>>

\* what an error map named map makes of the default message
MappedMessage(map, defaultMessage) == <<map>> \o defaultMessage

resolveMessageMapped(parseMap, globalMap, defaultMessage) ==
  IF parseMap # NoMap THEN MappedMessage(parseMap, defaultMessage)
  ELSE IF globalMap # NoMap THEN MappedMessage(globalMap, defaultMessage)
  ELSE defaultMessage

resolveMessage(issue, locale, parseMap, globalMap, explicitMessage, localeRegistry) ==
  resolveMessageMapped(parseMap, globalMap,
                       IF explicitMessage # NoMessage THEN explicitMessage
                       ELSE resolveDefaultMessage(locale, issue, localeRegistry))

(***************************************************************************)
(* Parse context.  `calls` is the history of user-callback invocations     *)
(* made so far during the call (it is not a field of ParseContext; it      *)
(* records what the descent has executed).  `locales` is what              *)
(* getLocaleRegistry() returns while the descent runs (not a field         *)
(* either: addIssue reads the process-wide registry).                      *)
(***************************************************************************)
ParseSettings(locale, abortEarly, parseErrorMap, globalErrorMap) ==
  [locale |-> locale, abortEarly |-> abortEarly,
   parseErrorMap |-> parseErrorMap, globalErrorMap |-> globalErrorMap]

createContext(settings, path, issues, calls) ==
  [locale |-> settings.locale, abortEarly |-> settings.abortEarly,
   parseErrorMap |-> settings.parseErrorMap, globalErrorMap |-> settings.globalErrorMap,
   path |-> path, issues |-> issues, calls |-> calls, locales |-> LocaleRegistry]

\* issueBase: the issue without its message, at the context's path
addIssueBase(ctx, issue, issueBase) ==
  [ctx EXCEPT !.issues =
     Append(@, [code |-> issueBase.code, info |-> issueBase.info, path |-> issueBase.path,
                message |-> resolveMessage(issueBase, ctx.locale, ctx.parseErrorMap,
                                           ctx.globalErrorMap, issue.message, ctx.locales)])]

addIssueLocalPath(ctx, issue) ==
  addIssueBase(ctx, issue, [code |-> issue.code, info |-> issue.info, path |-> issue.path])

addIssue(ctx, issue) ==
  addIssueBase(ctx, issue,
               [code |-> issue.code, info |-> issue.info, path |-> ctx.path \o issue.path])

forkEmptyPath(ctx) ==
  [createContext(ParseSettings(ctx.locale, ctx.abortEarly, ctx.parseErrorMap,
                               ctx.globalErrorMap), <<>>, <<>>, ctx.calls)
     EXCEPT !.locales = ctx.locales]

\* fork: () => createContext(settings, [...ctx.path], [])
fork(ctx) ==
  [createContext(ParseSettings(ctx.locale, ctx.abortEarly, ctx.parseErrorMap,
                               ctx.globalErrorMap), ctx.path, <<>>, ctx.calls)
     EXCEPT !.locales = ctx.locales]

\* what the caller's context looks like after a forked evaluation returned:
\* only the executed callbacks carry over
afterFork(ctx, sub) == [ctx EXCEPT !.calls = sub.calls]

pathPush(ctx, seg) == [ctx EXCEPT !.path = Append(@, seg)]
pathPopKeeps(ctx) == ctx

pathPop(ctx) == [ctx EXCEPT !.path = SubSeq(@, 1, Len(@) - 1)]
issuesPush(ctx, more) == [ctx EXCEPT !.issues = @ \o more]
called(ctx, ev, id) == [ctx EXCEPT !.calls = Append(@, <<ev, id>>)]

\* ParseOptions: abortEarly is "unset", "true" or "false"; locale is "unset"
\* or a name; errorMap is NoMap or a name.  defaults: getParseDefaults()
createParseContextFrom(defaults, options) ==
  createContext(
    ParseSettings(IF options.locale = "unset" THEN defaults.locale ELSE options.locale,
                  IF options.abortEarly = "unset" THEN defaults.abortEarly
                  ELSE options.abortEarly = "true",
                  options.errorMap, defaults.errorMap),
    <<>>, <<>>, <<>>)

\* createParseContext under the configuration the process starts with
createParseContext(options) == createParseContextFrom(GlobalDefaults, options)

\* InternalResult, plus the case that an exception left the node
ok(value, ctx) == [ok |-> TRUE, thrown |-> FALSE, value |-> value, ctx |-> ctx]
invalid(ctx) == [ok |-> FALSE, thrown |-> FALSE, value |-> Undef, ctx |-> ctx]
throws(ctx) == [ok |-> FALSE, thrown |-> TRUE, value |-> Undef, ctx |-> ctx]

(***************************************************************************)
(* User callbacks.  A callback is named; CallUser gives what it does on    *)
(* an argument: the value it returns, or that it throws.                   *)
(***************************************************************************)
Returns(value) == [thrown |-> FALSE, value |-> value]
Throws == [thrown |-> TRUE, value |-> Undef]

\* Number(string) on the model's strings
StringToNumber(s) ==
  CASE s = "" -> Num(0)
    [] s = "1" -> Num(1)
    [] OTHER -> NaN

\* Number(value): ToNumber; a Symbol cannot be converted (TypeError)
ToNumber(x) ==
  CASE x.t = "undefined" -> Returns(NaN)
    [] x.t = "null" -> Returns(Num(0))
    [] x.t = "boolean" -> Returns(Num(IF x.b THEN 1 ELSE 0))
    [] x.t \in {"number", "nan"} -> Returns(x)
    [] x.t = "string" -> Returns(StringToNumber(x.s))
    [] x.t = "symbol" -> Throws
    [] x.t = "array" ->
         IF Len(x.items) = 0 THEN Returns(Num(0))
         ELSE IF Len(x.items) = 1 /\ x.items[1].t \in {"number", "nan"} THEN Returns(x.items[1])
         ELSE IF Len(x.items) = 1 /\ x.items[1].t = "string"
           THEN Returns(StringToNumber(x.items[1].s))
         ELSE IF Len(x.items) = 1 /\ x.items[1].t \in {"null", "undefined"} THEN Returns(Num(0))
         ELSE Returns(NaN)
    [] OTHER -> Returns(NaN)

\* the function coerce.number() hands to preprocess
coerceNumber(x) == IF typeOf(x) = "number" THEN Returns(x) ELSE ToNumber(x)

CallUser(id, arg) ==
  CASE id = "coerceNumber" -> coerceNumber(arg)
    [] id = "ppIdentity" -> Returns(arg)
    [] id = "ppThrow" -> Throws
    [] id = "chkTrue" -> Returns(Bool(TRUE))
    [] id = "chkFalse" -> Returns(Bool(FALSE))
    [] id = "chkMsg" -> Returns(Str("bad"))
    [] id = "chkThrow" -> Throws
    [] id = "trConst" -> Returns(Str("t"))
    [] id = "trUndef" -> Returns(Undef)
    [] id = "trThrow" -> Throws
    [] id = "facUser" -> Returns(Str("user"))
    [] id = "facThrow" -> Throws
    [] id = "fbNull" -> Returns(Null)
    [] id = "fbThrow" -> Throws
    [] id = "selSelf" -> Returns(arg)                  \* (value) => value
    [] id = "selId" ->                                  \* (item) => item.id
         IF arg.t \in {"undefined", "null"} THEN Throws
         ELSE IF arg.t = "object" THEN Returns(GetProp(arg.props, "id"))
         ELSE Returns(Undef)
    [] id = "selConst" -> Returns(Num(0))
    [] id = "selThrow" -> Throws

(***************************************************************************)
(* Schema nodes.                                                           *)
(***************************************************************************)
StringSchema(rules) == [kind |-> "string", rules |-> rules]
NumberSchema(rules) == [kind |-> "number", rules |-> rules]
BooleanSchema == [kind |-> "boolean"]
LiteralSchema(value) == [kind |-> "literal", literal |-> value]
EnumSchema(values) == [kind |-> "enum", values |-> values]
AnySchema == [kind |-> "any"]
NeverSchema == [kind |-> "never"]
NullSchema == [kind |-> "null"]
UndefinedSchema == [kind |-> "undefined"]
DateSchema(rules) == [kind |-> "date", rules |-> rules]
BigIntSchema(rules) == [kind |-> "bigint", rules |-> rules]
OptionalSchema(inner) == [kind |-> "optional", inner |-> inner]
NullableSchema(inner) == [kind |-> "nullable", inner |-> inner]
FallbackValue(value) == [isFn |-> FALSE, value |-> value]
FallbackFn(id) == [isFn |-> TRUE, id |-> id]
DefaultSchema(inner, fallback) == [kind |-> "default", inner |-> inner, fallback |-> fallback]
CatchSchema(inner, fallback) == [kind |-> "catch", inner |-> inner, fallback |-> fallback]
RefinementSchema(inner, check, fallbackMessage) ==
  [kind |-> "refine", inner |-> inner, check |-> check, fallbackMessage |-> fallbackMessage]
TransformSchema(inner, transformValue) ==
  [kind |-> "transform", inner |-> inner, transformValue |-> transformValue]
PipelineSchema(first, second) == [kind |-> "pipe", first |-> first, second |-> second]
PreprocessSchema(preprocess, inner) ==
  [kind |-> "preprocess", preprocess |-> preprocess, inner |-> inner]
NoSelector == <<>>
ArraySchema(item, rules, uniqueSelector) ==
  [kind |-> "array", item |-> item, rules |-> rules, uniqueSelector |-> uniqueSelector]
TupleSchema(items) == [kind |-> "tuple", items |-> items]
RecordSchema(valueSchema) == [kind |-> "record", valueSchema |-> valueSchema]
StrictRecordSchema(keySchema, valueSchema) ==
  [kind |-> "strictRecord", keySchema |-> keySchema, valueSchema |-> valueSchema]
SetSchema(itemSchema, rules) == [kind |-> "set", itemSchema |-> itemSchema, rules |-> rules]
MapSchema(keySchema, valueSchema, rules) ==
  [kind |-> "map", keySchema |-> keySchema, valueSchema |-> valueSchema, rules |-> rules]
ObjectSchema(shape, policy) == [kind |-> "object", shape |-> shape, policy |-> policy]
UnionSchema(options) == [kind |-> "union", options |-> options]
IntersectionSchema(left, right) == [kind |-> "intersection", left |-> left, right |-> right]
DiscriminatedUnionSchema(discriminator, branches) ==
  [kind |-> "discriminatedUnion", discriminator |-> discriminator, branches |-> branches]
\* one entry of an object shape, of a tuple of options or of a branch table
Field(key, fieldSchema) == <<key, fieldSchema>>
\* what shape[key] holds when the shape has no such key (undefined)
NoNode == [kind |-> "none"]

\* rules
RuleMin(n) == [kind |-> "min", value |-> n]
RuleMax(n) == [kind |-> "max", value |-> n]
RuleLength(n) == [kind |-> "length", value |-> n]
RuleRegex(pattern) == [kind |-> "regex", pattern |-> pattern]
RuleEmail == [kind |-> "email"]
RulePositive == [kind |-> "positive"]
RuleNonnegative == [kind |-> "nonnegative"]
RuleNegative == [kind |-> "negative"]
RuleNonpositive == [kind |-> "nonpositive"]

(***************************************************************************)
(* Rule lists of primitive and collection nodes.                           *)
(***************************************************************************)
NoViolation == IssueInput("none", NoInfo)

\* for (const rule of this.rules): a violated rule adds its issue, then the
\* node returns at once under abortEarly and goes on to the next rule otherwise
RECURSIVE RunRules(_, _, _)
\* added: the context after the violated rule's issue was recorded
RunRulesAddedContinues(violations, i, added) == RunRules(violations, i + 1, added)

RunRulesAdded(violations, i, added) ==
  IF added.abortEarly THEN [ctx |-> added, aborted |-> TRUE]
  ELSE RunRules(violations, i + 1, added)

RunRules(violations, i, ctx) ==
  IF i > Len(violations) THEN [ctx |-> ctx, aborted |-> FALSE]
  ELSE IF violations[i].code = "none" THEN RunRules(violations, i + 1, ctx)
  ELSE RunRulesAdded(violations, i, addIssue(ctx, violations[i]))

\* a node with rules and no children: invalid when a rule aborted, else ok
RulesResult(x, run) == IF run.aborted THEN invalid(run.ctx) ELSE ok(x, run.ctx)

\* the strings a pattern accepts (RegExp.test on the model's strings)
RegexLanguage(pattern) ==
  CASE pattern = "^u" -> {"user", "u"}
    [] pattern = "^[a-z]+$" -> {"a", "bb", "user", "u", "admin", "t", "bad"}
    [] OTHER -> {}

\* a RegExp without the g and y flags: expression.test(input)
regexTest(pattern, str) == str \in RegexLanguage(pattern)

EmailStrings == {"a@b.c"}

StringRuleIssue(rule, str) ==
  CASE rule.kind = "min" /\ Len(str) < rule.value ->
         IssueInput("too_small", [kind |-> "string", minimum |-> rule.value, inclusive |-> TRUE])
    [] rule.kind = "max" /\ Len(str) > rule.value ->
         IssueInput("too_big", [kind |-> "string", maximum |-> rule.value, inclusive |-> TRUE])
    [] rule.kind = "length" /\ Len(str) # rule.value ->
         IssueInput(IF Len(str) < rule.value THEN "too_small" ELSE "too_big",
                    [kind |-> "string", minimum |-> rule.value, maximum |-> rule.value,
                     exact |-> TRUE])
    [] rule.kind = "regex" /\ ~regexTest(rule.pattern, str) ->
         IssueInput("invalid_string", [validation |-> "pattern", pattern |-> rule.pattern])
    [] rule.kind = "email" /\ str \notin EmailStrings ->
         IssueInput("invalid_string", [validation |-> "email"])
    [] OTHER -> NoViolation

StringSchema_parse(s, x, ctx) ==
  IF typeOf(x) # "string"
    THEN invalid(addIssue(ctx, IssueInput("invalid_type",
                   [expected |-> "string", received |-> getValueType(x)])))
    ELSE RulesResult(x, RunRules([i \in 1..Len(s.rules) |-> StringRuleIssue(s.rules[i], x.s)],
                                 1, ctx))

\* the model's numbers are integers: the int, finite and safe rules hold of all of them
NumberRuleIssue(rule, n) ==
  CASE rule.kind = "min" /\ n < rule.value ->
         IssueInput("too_small", [kind |-> "number", minimum |-> rule.value, inclusive |-> TRUE])
    [] rule.kind = "max" /\ n > rule.value ->
         IssueInput("too_big", [kind |-> "number", maximum |-> rule.value, inclusive |-> TRUE])
    [] rule.kind = "positive" /\ n <= 0 ->
         IssueInput("too_small", [kind |-> "number", minimum |-> 0, inclusive |-> FALSE])
    [] rule.kind = "nonnegative" /\ n < 0 ->
         IssueInput("too_small", [kind |-> "number", minimum |-> 0, inclusive |-> TRUE])
    [] rule.kind = "negative" /\ n >= 0 ->
         IssueInput("too_big", [kind |-> "number", maximum |-> 0, inclusive |-> FALSE])
    [] rule.kind = "nonpositive" /\ n > 0 ->
         IssueInput("too_big", [kind |-> "number", maximum |-> 0, inclusive |-> TRUE])
    [] OTHER -> NoViolation

NumberSchema_parse(s, x, ctx) ==
  IF x.t # "number"      \* typeof input !== "number" || Number.isNaN(input)
    THEN invalid(addIssue(ctx, IssueInput("invalid_type",
                   [expected |-> "number", received |-> getValueType(x)])))
    ELSE RulesResult(x, RunRules([i \in 1..Len(s.rules) |-> NumberRuleIssue(s.rules[i], x.n)],
                                 1, ctx))

DateRuleIssue(rule, time) ==
  CASE rule.kind = "min" /\ time < rule.value ->
         IssueInput("too_small", [kind |-> "date", minimum |-> rule.value, inclusive |-> TRUE])
    [] rule.kind = "max" /\ time > rule.value ->
         IssueInput("too_big", [kind |-> "date", maximum |-> rule.value, inclusive |-> TRUE])
    [] OTHER -> NoViolation

DateSchema_parse(s, x, ctx) ==
  IF x.t # "date" \/ ~x.valid
    THEN invalid(addIssue(ctx, IssueInput("invalid_date", NoInfo)))
    ELSE RulesResult(x, RunRules([i \in 1..Len(s.rules) |-> DateRuleIssue(s.rules[i], x.time)],
                                 1, ctx))

BigIntRuleIssue(rule, n) ==
  CASE rule.kind = "min" /\ n < rule.value ->
         IssueInput("too_small", [kind |-> "bigint", minimum |-> rule.value, inclusive |-> TRUE])
    [] rule.kind = "max" /\ n > rule.value ->
         IssueInput("too_big", [kind |-> "bigint", maximum |-> rule.value, inclusive |-> TRUE])
    [] rule.kind = "positive" /\ n <= 0 ->
         IssueInput("too_small", [kind |-> "bigint", minimum |-> 0, inclusive |-> FALSE])
    [] rule.kind = "nonnegative" /\ n < 0 ->
         IssueInput("too_small", [kind |-> "bigint", minimum |-> 0, inclusive |-> TRUE])
    [] rule.kind = "negative" /\ n >= 0 ->
         IssueInput("too_big", [kind |-> "bigint", maximum |-> 0, inclusive |-> FALSE])
    [] rule.kind = "nonpositive" /\ n > 0 ->
         IssueInput("too_big", [kind |-> "bigint", maximum |-> 0, inclusive |-> TRUE])
    [] OTHER -> NoViolation

BigIntSchema_parse(s, x, ctx) ==
  IF typeOf(x) # "bigint"
    THEN invalid(addIssue(ctx, IssueInput("invalid_type",
                   [expected |-> "bigint", received |-> getValueType(x)])))
    ELSE RulesResult(x, RunRules([i \in 1..Len(s.rules) |-> BigIntRuleIssue(s.rules[i], x.n)],
                                 1, ctx))

BooleanSchema_parse(s, x, ctx) ==
  IF typeOf(x) # "boolean"
    THEN invalid(addIssue(ctx, IssueInput("invalid_type",
                   [expected |-> "boolean", received |-> getValueType(x)])))
    ELSE ok(x, ctx)

LiteralSchema_parse(s, x, ctx) ==
  IF ~ObjectIs(x, s.literal)
    THEN invalid(addIssue(ctx, IssueInput("invalid_literal", [literal |-> s.literal])))
    ELSE ok(s.literal, ctx)

EnumSchema_parse(s, x, ctx) ==
  IF typeOf(x) # "string" \/ ~(\E i \in 1..Len(s.values) : s.values[i] = x.s)
    THEN invalid(addIssue(ctx, IssueInput("invalid_enum_value", [options |-> s.values])))
    ELSE ok(x, ctx)

AnySchema_parse(s, x, ctx) == ok(x, ctx)

NeverSchema_parse(s, x, ctx) ==
  invalid(addIssue(ctx, IssueInput("invalid_type", [expected |-> "never", received |-> "unknown"])))

NullSchema_parse(s, x, ctx) ==
  IF x # Null
    THEN invalid(addIssue(ctx, IssueInput("invalid_type",
                   [expected |-> "null", received |-> getValueType(x)])))
    ELSE ok(Null, ctx)

UndefinedSchema_parse(s, x, ctx) ==
  IF typeOf(x) # "undefined"
    THEN invalid(addIssue(ctx, IssueInput("invalid_type",
                   [expected |-> "undefined", received |-> getValueType(x)])))
    ELSE ok(Undef, ctx)

(***************************************************************************)
(* Decorator nodes.  _parse(s, x, ctx) is schema._parse(input, ctx).        *)
(* An operator whose last parameters are named after the code's locals     *)
(* (parsed, made, result, ...) is the rest of the method after those       *)
(* locals were assigned.                                                   *)
(***************************************************************************)
RECURSIVE _parse(_, _, _)

OptionalSchema_parse(s, x, ctx) ==
  IF typeOf(x) = "undefined" THEN ok(Undef, ctx) ELSE _parse(s.inner, x, ctx)

NullableSchema_parse(s, x, ctx) ==
  IF x = Null THEN ok(Null, ctx) ELSE _parse(s.inner, x, ctx)

\* made: what the default factory did; c: the context after the call
DefaultSchemaMade(s, made, c) ==
  IF made.thrown THEN throws(c) ELSE _parse(s.inner, made.value, c)

DefaultSchema_parseNoFallback(s, x, ctx) == _parse(s.inner, x, ctx)

DefaultSchema_parse(s, x, ctx) ==
  IF typeOf(x) = "undefined"
    THEN IF s.fallback.isFn
           THEN DefaultSchemaMade(s, CallUser(s.fallback.id, Undef),
                                  called(ctx, "factory", s.fallback.id))
           ELSE _parse(s.inner, s.fallback.value, ctx)
    ELSE _parse(s.inner, x, ctx)

CatchSchemaMade(made, c) == IF made.thrown THEN throws(c) ELSE ok(made.value, c)

\* parsed: the inner schema's result in the forked context
CatchSchemaParsed(s, x, ctx, parsed) ==
  IF parsed.thrown THEN throws(afterFork(ctx, parsed.ctx))
  ELSE IF parsed.ok /\ Len(parsed.ctx.issues) = 0
    THEN ok(parsed.value, afterFork(ctx, parsed.ctx))
  ELSE IF s.fallback.isFn
    THEN CatchSchemaMade(CallUser(s.fallback.id, x),
                         called(afterFork(ctx, parsed.ctx), "fallback", s.fallback.id))
  ELSE ok(s.fallback.value, afterFork(ctx, parsed.ctx))

CatchSchema_parse(s, x, ctx) == CatchSchemaParsed(s, x, ctx, _parse(s.inner, x, fork(ctx)))

\* the callbacks of the model return true, false or a message string
RefinementSchemaCheckedRethrows(s, parsed, result, c) ==
  IF result.thrown THEN throws(c)
  ELSE IF result.value = Bool(TRUE) THEN ok(parsed.value, c)
  ELSE invalid(addIssue(c, [code |-> "custom", info |-> NoInfo, path |-> <<>>,
                            message |-> s.fallbackMessage]))

RefinementSchemaChecked(s, parsed, result, c) ==
  IF result.thrown
    THEN invalid(addIssue(c, [code |-> "custom", info |-> NoInfo, path |-> <<>>,
                   message |-> IF s.fallbackMessage # NoMessage THEN s.fallbackMessage
                               ELSE <<"Refinement threw an error.">>]))
  ELSE IF result.value = Bool(TRUE) THEN ok(parsed.value, c)
  ELSE IF result.value = Bool(FALSE)
    THEN invalid(addIssue(c, [code |-> "custom", info |-> NoInfo, path |-> <<>>,
                              message |-> s.fallbackMessage]))
  ELSE invalid(addIssue(c, IssueInputMsg("custom", NoInfo, result.value.s)))

RefinementSchemaParsed(s, parsed) ==
  IF parsed.thrown THEN parsed
  ELSE IF ~parsed.ok THEN invalid(parsed.ctx)
  ELSE RefinementSchemaChecked(s, parsed, CallUser(s.check, parsed.value),
                               called(parsed.ctx, "check", s.check))

RefinementSchema_parse(s, x, ctx) == RefinementSchemaParsed(s, _parse(s.inner, x, ctx))

TransformSchemaTransformed(result, c) ==
  IF result.thrown
    THEN invalid(addIssue(c, IssueInputMsg("custom", NoInfo, "Transform failed.")))
    ELSE ok(result.value, c)

TransformSchemaParsed(s, parsed) ==
  IF parsed.thrown THEN parsed
  ELSE IF ~parsed.ok THEN invalid(parsed.ctx)
  ELSE TransformSchemaTransformed(CallUser(s.transformValue, parsed.value),
                                  called(parsed.ctx, "transform", s.transformValue))

TransformSchema_parse(s, x, ctx) == TransformSchemaParsed(s, _parse(s.inner, x, ctx))

PipelineSchemaFirst(s, firstParsed) ==
  IF firstParsed.thrown THEN firstParsed
  ELSE IF ~firstParsed.ok THEN invalid(firstParsed.ctx)
  ELSE _parse(s.second, firstParsed.value, firstParsed.ctx)

PipelineSchema_parse(s, x, ctx) == PipelineSchemaFirst(s, _parse(s.first, x, ctx))

PreprocessSchemaPreprocessed(s, preprocessed, c) ==
  IF preprocessed.thrown THEN throws(c) ELSE _parse(s.inner, preprocessed.value, c)

PreprocessSchema_parse(s, x, ctx) ==
  PreprocessSchemaPreprocessed(s, CallUser(s.preprocess, x),
                               called(ctx, "preprocess", s.preprocess))

(***************************************************************************)
(* Array.                                                                  *)
(***************************************************************************)
\* what a loop over children hands back: ret is "none" when the loop ran to
\* its end, "invalid" when it returned invalid, "thrown" when a child threw
LoopState(ret, ctx, output, hasError) ==
  [ret |-> ret, ctx |-> ctx, output |-> output, hasError |-> hasError]

ArrayRuleIssue(rule, len) ==
  CASE rule.kind = "min" /\ len < rule.value ->
         IssueInput("too_small", [kind |-> "array", minimum |-> rule.value, inclusive |-> TRUE])
    [] rule.kind = "max" /\ len > rule.value ->
         IssueInput("too_big", [kind |-> "array", maximum |-> rule.value, inclusive |-> TRUE])
    [] rule.kind = "length" /\ len # rule.value ->
         IssueInput("invalid_tuple_length", [minimum |-> rule.value, maximum |-> len])
    [] OTHER -> NoViolation

\* for (let index = 0; index < input.length; index += 1): index here is 1-based
RECURSIVE ArrayItems(_, _, _, _, _, _)
\* parsed: the item's result, its context still holding the item's path segment
ArrayItemsParsed(s, items, index, output, hasError, parsed) ==
  IF parsed.thrown THEN LoopState("thrown", parsed.ctx, output, hasError)
  ELSE IF parsed.ok
    THEN ArrayItems(s, items, index + 1, pathPop(parsed.ctx),
                    Append(output, parsed.value), hasError)
  ELSE IF parsed.ctx.abortEarly THEN LoopState("invalid", pathPop(parsed.ctx), output, TRUE)
  ELSE ArrayItems(s, items, index + 1, pathPop(parsed.ctx), Append(output, Undef), TRUE)

ArrayItems(s, items, index, ctx, output, hasError) ==
  IF index > Len(items) THEN LoopState("none", ctx, output, hasError)
  ELSE ArrayItemsParsed(s, items, index, output, hasError,
                        _parse(s.item, items[index], pathPush(ctx, Idx(index - 1))))

seenHas(seen, key) == \E i \in 1..Len(seen) : ObjectIs(seen[i], key)

UniqueIssueAt(ctx, index) ==
  pathPop(addIssue(pathPush(ctx, Idx(index - 1)),
                   IssueInput("invalid_array", [validation |-> "unique"])))

\* key: what the selector did on output[index]; c: the context after the call
ArrayUniqueKeyed(index, seen, key, c) ==
  IF key.thrown \/ seenHas(seen, key.value)
    THEN [ctx |-> UniqueIssueAt(c, index), seen |-> seen, flagged |-> TRUE]
    ELSE [ctx |-> c, seen |-> Append(seen, key.value), flagged |-> FALSE]

ArrayUniqueKeyedFlagsFirst(index, seen, key, c) ==
  IF key.thrown \/ seenHas(seen, key.value) \/ index = 1
    THEN [ctx |-> UniqueIssueAt(c, index), seen |-> seen, flagged |-> TRUE]
    ELSE [ctx |-> c, seen |-> Append(seen, key.value), flagged |-> FALSE]

ArrayUniqueStepFlagsFirst(selector, output, index, ctx, seen) ==
  ArrayUniqueKeyedFlagsFirst(index, seen, CallUser(selector, output[index]),
                             called(ctx, "selector", selector))

\* one round of the uniqueness pass: the selector's key of output[index]
\* against the keys seen so far
ArrayUniqueStep(selector, output, index, ctx, seen) ==
  ArrayUniqueKeyed(index, seen, CallUser(selector, output[index]),
                   called(ctx, "selector", selector))

RECURSIVE ArrayUniquePass(_, _, _, _, _, _)
ArrayUniquePassStep(selector, output, index, hasError, step) ==
  IF step.flagged /\ step.ctx.abortEarly THEN LoopState("invalid", step.ctx, output, TRUE)
  ELSE ArrayUniquePass(selector, output, index + 1, step.ctx, step.seen,
                       hasError \/ step.flagged)

ArrayUniquePass(selector, output, index, ctx, seen, hasError) ==
  IF index > Len(output) THEN LoopState("none", ctx, output, hasError)
  ELSE ArrayUniquePassStep(selector, output, index, hasError,
                           ArrayUniqueStep(selector, output, index, ctx, seen))

\* unique: the loop state after the uniqueness pass, or the items' when none ran
ArraySchemaUnique(unique) ==
  IF unique.ret = "invalid" \/ unique.hasError THEN invalid(unique.ctx)
  ELSE ok(NewArr(unique.output), unique.ctx)

ArraySchemaItems(s, items) ==
  IF items.ret = "thrown" THEN throws(items.ctx)
  ELSE IF items.ret = "invalid" THEN invalid(items.ctx)
  ELSE ArraySchemaUnique(IF ~items.hasError /\ s.uniqueSelector # NoSelector
                           THEN ArrayUniquePass(s.uniqueSelector[1], items.output, 1,
                                                items.ctx, <<>>, FALSE)
                           ELSE items)

ArraySchemaRules(s, x, run) ==
  IF run.aborted THEN invalid(run.ctx)
  ELSE ArraySchemaItems(s, ArrayItems(s, x.items, 1, run.ctx, <<>>, FALSE))

ArraySchema_parse(s, x, ctx) ==
  IF x.t # "array"
    THEN invalid(addIssue(ctx, IssueInput("invalid_type",
                   [expected |-> "array", received |-> typeOf(x)])))
    ELSE ArraySchemaRules(s, x,
           RunRules([i \in 1..Len(s.rules) |-> ArrayRuleIssue(s.rules[i], Len(x.items))],
                    1, ctx))

(***************************************************************************)
(* Tuple, record, strict record, set, map.                                 *)
(***************************************************************************)
RECURSIVE TupleItems(_, _, _, _, _)
TupleItemsParsed(s, items, index, output, parsed) ==
  IF parsed.thrown THEN LoopState("thrown", parsed.ctx, output, FALSE)
  ELSE IF ~parsed.ok THEN LoopState("invalid", pathPop(parsed.ctx), output, TRUE)
  ELSE TupleItems(s, items, index + 1, pathPop(parsed.ctx), Append(output, parsed.value))

TupleItems(s, items, index, ctx, output) ==
  IF index > Len(s.items) THEN LoopState("none", ctx, output, FALSE)
  ELSE TupleItemsParsed(s, items, index, output,
                        _parse(s.items[index], items[index], pathPush(ctx, Idx(index - 1))))

TupleSchemaLoop(loop) ==
  IF loop.ret = "thrown" THEN throws(loop.ctx)
  ELSE IF loop.ret = "invalid" THEN invalid(loop.ctx)
  ELSE ok(NewArr(loop.output), loop.ctx)

TupleSchema_parse(s, x, ctx) ==
  IF x.t # "array"
    THEN invalid(addIssue(ctx, IssueInput("invalid_type",
                   [expected |-> "array", received |-> getValueType(x)])))
  ELSE IF Len(x.items) # Len(s.items)
    THEN invalid(addIssue(ctx, IssueInput("invalid_tuple_length",
                   [minimum |-> Len(s.items), maximum |-> Len(x.items)])))
  ELSE TupleSchemaLoop(TupleItems(s, x.items, 1, ctx, <<>>))

RECURSIVE RecordEntries(_, _, _, _, _, _)
RecordEntriesParsed(s, props, index, output, hasError, key, parsed) ==
  IF parsed.thrown THEN LoopState("thrown", parsed.ctx, output, hasError)
  ELSE IF ~parsed.ok
    THEN IF parsed.ctx.abortEarly THEN LoopState("invalid", pathPop(parsed.ctx), output, TRUE)
         ELSE RecordEntries(s, props, index + 1, pathPop(parsed.ctx), output, TRUE)
  ELSE RecordEntries(s, props, index + 1, pathPop(parsed.ctx),
                     SetProp(output, key, parsed.value), hasError)

RecordEntries(s, props, index, ctx, output, hasError) ==
  IF index > Len(props) THEN LoopState("none", ctx, output, hasError)
  ELSE RecordEntriesParsed(s, props, index, output, hasError, props[index][1],
         _parse(s.valueSchema, props[index][2], pathPush(ctx, Key(props[index][1]))))

\* the end of a loop over an object's entries
EntriesLoop(loop) ==
  IF loop.ret = "thrown" THEN throws(loop.ctx)
  ELSE IF loop.ret = "invalid" \/ loop.hasError THEN invalid(loop.ctx)
  ELSE ok(Obj(loop.output), loop.ctx)

RecordSchema_parse(s, x, ctx) ==
  IF ~isPlainObject(x)
    THEN invalid(addIssue(ctx, IssueInput("invalid_type",
                   [expected |-> "object", received |-> getValueType(x)])))
  ELSE EntriesLoop(RecordEntries(s, x.props, 1, ctx, <<>>, FALSE))

KeyValueStepValue(parsedKey, parsedValue) ==
  IF parsedValue.thrown THEN [thrown |-> TRUE, ok |-> FALSE, key |-> Undef,
                              value |-> Undef, ctx |-> parsedValue.ctx]
  ELSE [thrown |-> FALSE, ok |-> parsedKey.ok /\ parsedValue.ok, key |-> parsedKey.value,
        value |-> parsedValue.value, ctx |-> pathPop(parsedValue.ctx)]

KeyValueStepKey(s, rawValue, parsedKey) ==
  IF parsedKey.thrown THEN [thrown |-> TRUE, ok |-> FALSE, key |-> Undef, value |-> Undef,
                            ctx |-> parsedKey.ctx]
  ELSE KeyValueStepValue(parsedKey, _parse(s.valueSchema, rawValue, parsedKey.ctx))

\* the key and then the value are both evaluated under the same path segment
\* before either result is looked at
KeyValueStep(s, rawKey, rawValue, seg, ctx) ==
  KeyValueStepKey(s, rawValue, _parse(s.keySchema, rawKey, pathPush(ctx, seg)))

RECURSIVE StrictRecordEntries(_, _, _, _, _, _)
StrictRecordEntriesStep(s, props, index, output, hasError, step) ==
  IF step.thrown THEN LoopState("thrown", step.ctx, output, hasError)
  ELSE IF ~step.ok
    THEN IF step.ctx.abortEarly THEN LoopState("invalid", step.ctx, output, TRUE)
         ELSE StrictRecordEntries(s, props, index + 1, step.ctx, output, TRUE)
  ELSE StrictRecordEntries(s, props, index + 1, step.ctx,
                           SetProp(output, step.key.s, step.value), hasError)

StrictRecordEntries(s, props, index, ctx, output, hasError) ==
  IF index > Len(props) THEN LoopState("none", ctx, output, hasError)
  ELSE StrictRecordEntriesStep(s, props, index, output, hasError,
         KeyValueStep(s, Str(props[index][1]), props[index][2], Key(props[index][1]), ctx))

StrictRecordSchema_parse(s, x, ctx) ==
  IF ~isPlainObject(x)
    THEN invalid(addIssue(ctx, IssueInput("invalid_type",
                   [expected |-> "object", received |-> getValueType(x)])))
  ELSE EntriesLoop(StrictRecordEntries(s, x.props, 1, ctx, <<>>, FALSE))

SizeRuleIssue(rule, size, kind) ==
  CASE rule.kind = "min" /\ size < rule.value ->
         IssueInput("too_small", [kind |-> kind, minimum |-> rule.value, inclusive |-> TRUE])
    [] rule.kind = "max" /\ size > rule.value ->
         IssueInput("too_big", [kind |-> kind, maximum |-> rule.value, inclusive |-> TRUE])
    [] OTHER -> NoViolation

\* Set.prototype.add
SetAdd(members, value) == IF seenHas(members, value) THEN members ELSE Append(members, value)

\* Map.prototype.set
MapSet(entries, key, value) ==
  IF \E i \in 1..Len(entries) : ObjectIs(entries[i][1], key)
    THEN [i \in 1..Len(entries) |->
            IF ObjectIs(entries[i][1], key) THEN <<key, value>> ELSE entries[i]]
    ELSE Append(entries, <<key, value>>)

RECURSIVE SetItems(_, _, _, _, _)
SetItemsParsed(s, members, index, output, parsed) ==
  IF parsed.thrown THEN LoopState("thrown", parsed.ctx, output, FALSE)
  ELSE IF ~parsed.ok
    THEN IF parsed.ctx.abortEarly THEN LoopState("invalid", pathPop(parsed.ctx), output, TRUE)
         ELSE SetItems(s, members, index + 1, pathPop(parsed.ctx), output)
  ELSE SetItems(s, members, index + 1, pathPop(parsed.ctx), SetAdd(output, parsed.value))

SetItems(s, members, index, ctx, output) ==
  IF index > Len(members) THEN LoopState("none", ctx, output, FALSE)
  ELSE SetItemsParsed(s, members, index, output,
                      _parse(s.itemSchema, members[index], pathPush(ctx, Idx(index - 1))))

SetSchemaLoop(loop) ==
  IF loop.ret = "thrown" THEN throws(loop.ctx)
  ELSE IF loop.ret = "invalid" THEN invalid(loop.ctx)
  ELSE IF Len(loop.ctx.issues) > 0 THEN invalid(loop.ctx)
  ELSE ok(NewSetV(loop.output), loop.ctx)

SetSchemaRules(s, x, run) ==
  IF run.aborted THEN invalid(run.ctx)
  ELSE SetSchemaLoop(SetItems(s, x.members, 1, run.ctx, <<>>))

SetSchema_parse(s, x, ctx) ==
  IF x.t # "set"
    THEN invalid(addIssue(ctx, IssueInput("invalid_type",
                   [expected |-> "set", received |-> getValueType(x)])))
    ELSE SetSchemaRules(s, x,
           RunRules([i \in 1..Len(s.rules) |->
                       SizeRuleIssue(s.rules[i], Len(x.members), "set")], 1, ctx))

RECURSIVE MapEntries(_, _, _, _, _)
MapEntriesStep(s, entries, index, output, step) ==
  IF step.thrown THEN LoopState("thrown", step.ctx, output, FALSE)
  ELSE IF ~step.ok
    THEN IF step.ctx.abortEarly THEN LoopState("invalid", step.ctx, output, TRUE)
         ELSE MapEntries(s, entries, index + 1, step.ctx, output)
  ELSE MapEntries(s, entries, index + 1, step.ctx, MapSet(output, step.key, step.value))

MapEntries(s, entries, index, ctx, output) ==
  IF index > Len(entries) THEN LoopState("none", ctx, output, FALSE)
  ELSE MapEntriesStep(s, entries, index, output,
         KeyValueStep(s, entries[index][1], entries[index][2], Idx(index - 1), ctx))

MapSchemaLoop(loop) ==
  IF loop.ret = "thrown" THEN throws(loop.ctx)
  ELSE IF loop.ret = "invalid" THEN invalid(loop.ctx)
  ELSE IF Len(loop.ctx.issues) > 0 THEN invalid(loop.ctx)
  ELSE ok(NewMapV(loop.output), loop.ctx)

MapSchemaRules(s, x, run) ==
  IF run.aborted THEN invalid(run.ctx)
  ELSE MapSchemaLoop(MapEntries(s, x.entries, 1, run.ctx, <<>>))

MapSchema_parse(s, x, ctx) ==
  IF x.t # "map"
    THEN invalid(addIssue(ctx, IssueInput("invalid_type",
                   [expected |-> "map", received |-> getValueType(x)])))
    ELSE MapSchemaRules(s, x,
           RunRules([i \in 1..Len(s.rules) |->
                       SizeRuleIssue(s.rules[i], Len(x.entries), "map")], 1, ctx))

(***************************************************************************)
(* Object.                                                                 *)
(***************************************************************************)
\* parsed: the probe's result in probeContext
acceptsMissingKeyProbed(ctx, parsed) ==
  [thrown |-> parsed.thrown, accepted |-> parsed.ok /\ Len(parsed.ctx.issues) = 0,
   value |-> parsed.value, ctx |-> afterFork(ctx, parsed.ctx)]

acceptsMissingKeyShared(ctx, parsed) ==
  [thrown |-> parsed.thrown, accepted |-> parsed.ok /\ Len(parsed.ctx.issues) = Len(ctx.issues),
   value |-> parsed.value, ctx |-> parsed.ctx]

acceptsMissingKeyLeaks(fieldSchema, ctx) ==
  acceptsMissingKeyShared(ctx, _parse(fieldSchema, Undef, ctx))

\* the probe: the field's schema on undefined, in a fork of the context
acceptsMissingKey(fieldSchema, ctx) ==
  acceptsMissingKeyProbed(ctx, _parse(fieldSchema, Undef, fork(ctx)))

RECURSIVE ObjectFields(_, _, _, _, _, _)
\* required: the context after the 'required' issue was added under the key
ObjectFieldsRequired(s, source, index, output, required) ==
  IF required.abortEarly THEN LoopState("invalid", required, output, TRUE)
  ELSE ObjectFields(s, source, index + 1, required, output, TRUE)

\* the key is not an own property of the source; missing: the probe's answer
ObjectFieldsMissing(s, source, index, output, hasError, keyString, missing) ==
  IF missing.thrown THEN LoopState("thrown", missing.ctx, output, hasError)
  ELSE IF missing.accepted
    THEN ObjectFields(s, source, index + 1, missing.ctx,
           IF typeOf(missing.value) # "undefined"
             THEN SetProp(output, keyString, missing.value) ELSE output,
           hasError)
  ELSE ObjectFieldsRequired(s, source, index, output,
         pathPop(addIssue(pathPush(missing.ctx, Key(keyString)),
                          IssueInput("required", NoInfo))))

\* the key is an own property; parsed: the field's result
ObjectFieldsParsed(s, source, index, output, hasError, keyString, parsed) ==
  IF parsed.thrown THEN LoopState("thrown", parsed.ctx, output, hasError)
  ELSE IF ~parsed.ok
    THEN IF parsed.ctx.abortEarly THEN LoopState("invalid", pathPop(parsed.ctx), output, TRUE)
         ELSE ObjectFields(s, source, index + 1, pathPop(parsed.ctx), output, TRUE)
  ELSE ObjectFields(s, source, index + 1, pathPop(parsed.ctx),
         IF typeOf(parsed.value) # "undefined"
           THEN SetProp(output, keyString, parsed.value) ELSE output,
         hasError)

\* keyString is s.shape[index][1], its schema s.shape[index][2]
ObjectFields(s, source, index, ctx, output, hasError) ==
  IF index > Len(s.shape) THEN LoopState("none", ctx, output, hasError)
  ELSE IF ~hasOwn(source, s.shape[index][1])
    THEN ObjectFieldsMissing(s, source, index, output, hasError, s.shape[index][1],
                             acceptsMissingKey(s.shape[index][2], ctx))
  ELSE ObjectFieldsParsed(s, source, index, output, hasError, s.shape[index][1],
         _parse(s.shape[index][2], GetProp(source, s.shape[index][1]),
                pathPush(ctx, Key(s.shape[index][1]))))

unknownKeysAll(shape, source) == ObjectKeys(source)

\* sourceKeys.filter((key) => !hasOwn(this.shape, key))
unknownKeys(shape, source) ==
  SelectSeq(ObjectKeys(source), LAMBDA key : ~hasOwn(shape, key))

RECURSIVE CopyKeys(_, _, _, _)
CopyKeys(keys, index, source, output) ==
  IF index > Len(keys) THEN output
  ELSE CopyKeys(keys, index + 1, source,
                SetProp(output, keys[index], GetProp(source, keys[index])))

\* loop: the state after the shape's keys; unknown: the undeclared source keys
ObjectSchemaLoop(s, x, loop, unknown) ==
  IF loop.ret = "thrown" THEN throws(loop.ctx)
  ELSE IF loop.ret = "invalid" THEN invalid(loop.ctx)
  ELSE IF s.policy = "strict" /\ Len(unknown) > 0
    THEN invalid(addIssue(loop.ctx, IssueInput("unknown_keys", [keys |-> unknown])))
  ELSE IF loop.hasError THEN invalid(loop.ctx)
  ELSE IF s.policy = "passthrough" /\ Len(unknown) > 0
    THEN ok(Obj(CopyKeys(unknown, 1, x.props, loop.output)), loop.ctx)
  ELSE ok(Obj(loop.output), loop.ctx)

ObjectSchema_parse(s, x, ctx) ==
  IF ~isPlainObject(x)
    THEN invalid(addIssue(ctx, IssueInput("invalid_type",
                   [expected |-> "object", received |-> getValueType(x)])))
    ELSE ObjectSchemaLoop(s, x, ObjectFields(s, x.props, 1, ctx, <<>>, FALSE),
                          unknownKeys(s.shape, x.props))

(***************************************************************************)
(* Union, intersection, discriminated union.                               *)
(***************************************************************************)
\* for (const option of this.options): ret "won" carries the winner's value
RECURSIVE UnionOptionsLeaks(_, _, _, _, _)
UnionOptionsLeaks(s, x, index, ctx, collected) ==
  IF index > Len(s.options)
    THEN [ret |-> "none", ctx |-> ctx, value |-> Undef, collected |-> collected]
  ELSE LET parsed == _parse(s.options[index], x, [ctx EXCEPT !.issues = <<>>])
           after == issuesPush(afterFork(ctx, parsed.ctx), parsed.ctx.issues)
       IN IF parsed.thrown
            THEN [ret |-> "thrown", ctx |-> after, value |-> Undef, collected |-> collected]
          ELSE IF parsed.ok /\ Len(parsed.ctx.issues) = 0
            THEN [ret |-> "won", ctx |-> after, value |-> parsed.value, collected |-> collected]
          ELSE UnionOptionsLeaks(s, x, index + 1, after, Append(collected, parsed.ctx.issues))

RECURSIVE UnionOptions(_, _, _, _, _)
\* parsed: the option's result in its branch context
UnionOptionsParsed(s, x, index, ctx, collected, parsed) ==
  IF parsed.thrown
    THEN [ret |-> "thrown", ctx |-> afterFork(ctx, parsed.ctx), value |-> Undef,
          collected |-> collected]
  ELSE IF parsed.ok /\ Len(parsed.ctx.issues) = 0
    THEN [ret |-> "won", ctx |-> afterFork(ctx, parsed.ctx), value |-> parsed.value,
          collected |-> collected]
  ELSE UnionOptions(s, x, index + 1, afterFork(ctx, parsed.ctx),
                    Append(collected, parsed.ctx.issues))

UnionOptions(s, x, index, ctx, collected) ==
  IF index > Len(s.options)
    THEN [ret |-> "none", ctx |-> ctx, value |-> Undef, collected |-> collected]
  ELSE UnionOptionsParsed(s, x, index, ctx, collected,
                          _parse(s.options[index], x, fork(ctx)))

RECURSIVE Flatten(_)
Flatten(lists) == IF Len(lists) = 0 THEN <<>> ELSE Head(lists) \o Flatten(Tail(lists))

\* reported: the context after the invalid_union issue was added
UnionSchemaReported(loop, reported) ==
  IF ~reported.abortEarly THEN invalid(issuesPush(reported, Flatten(loop.collected)))
  ELSE invalid(reported)

UnionSchemaLoop(loop) ==
  IF loop.ret = "thrown" THEN throws(loop.ctx)
  ELSE IF loop.ret = "won" THEN ok(loop.value, loop.ctx)
  ELSE UnionSchemaReported(loop, addIssue(loop.ctx, IssueInput("invalid_union",
                                            [unionErrors |-> loop.collected])))

UnionSchemaLoopAlwaysAppends(loop) ==
  IF loop.ret = "thrown" THEN throws(loop.ctx)
  ELSE IF loop.ret = "won" THEN ok(loop.value, loop.ctx)
  ELSE invalid(issuesPush(addIssue(loop.ctx, IssueInput("invalid_union",
                                     [unionErrors |-> loop.collected])),
                          Flatten(loop.collected)))

UnionSchema_parseAlwaysAppends(s, x, ctx) ==
  UnionSchemaLoopAlwaysAppends(UnionOptions(s, x, 1, ctx, <<>>))

UnionSchema_parse(s, x, ctx) == UnionSchemaLoop(UnionOptions(s, x, 1, ctx, <<>>))

\* { ...left, ...right }
RECURSIVE Spread(_, _, _)
Spread(target, props, index) ==
  IF index > Len(props) THEN target
  ELSE Spread(SetProp(target, props[index][1], props[index][2]), props, index + 1)

NotMergeable == [t |-> "symbol"]

\* Object.is(left, right) on the outputs of two nodes that were handed the
\* same input: equal primitives, or the input's array, Set or Map itself,
\* handed through by both
SameOutput(left, right) ==
  \/ ObjectIs(left, right)
  \/ left = right /\ left.t \in {"array", "set", "map"} /\ "allocated" \notin DOMAIN left

mergeIntersection(left, right) ==
  IF isPlainObject(left) /\ isPlainObject(right) THEN Obj(Spread(left.props, right.props, 1))
  ELSE IF SameOutput(left, right) THEN left
  ELSE NotMergeable

\* failed: the context after the invalid_intersection issue was added
IntersectionSchemaFailed(failed, issues) ==
  invalid(IF ~failed.abortEarly THEN issuesPush(failed, issues) ELSE failed)

IntersectionSchemaMerged(merged, after) ==
  IF typeOf(merged) = "symbol"
    THEN invalid(addIssue(after, IssueInputMsg("invalid_intersection", NoInfo,
                                               "Intersection values cannot be merged.")))
  ELSE ok(merged, after)

IntersectionSchemaBoth(ctx, leftParsed, rightParsed) ==
  IF rightParsed.thrown THEN throws(afterFork(ctx, rightParsed.ctx))
  ELSE IF ~leftParsed.ok \/ Len(leftParsed.ctx.issues) > 0
    THEN IntersectionSchemaFailed(addIssue(afterFork(ctx, rightParsed.ctx),
                                           IssueInput("invalid_intersection", NoInfo)),
                                  leftParsed.ctx.issues)
  ELSE IF ~rightParsed.ok \/ Len(rightParsed.ctx.issues) > 0
    THEN IntersectionSchemaFailed(addIssue(afterFork(ctx, rightParsed.ctx),
                                           IssueInput("invalid_intersection", NoInfo)),
                                  rightParsed.ctx.issues)
  ELSE IntersectionSchemaMerged(mergeIntersection(leftParsed.value, rightParsed.value),
                                afterFork(ctx, rightParsed.ctx))

IntersectionSchemaLeft(s, x, ctx, leftParsed) ==
  IF leftParsed.thrown THEN throws(afterFork(ctx, leftParsed.ctx))
  ELSE IntersectionSchemaBoth(ctx, leftParsed,
         _parse(s.right, x, fork(afterFork(ctx, leftParsed.ctx))))

IntersectionSchema_parse(s, x, ctx) ==
  IntersectionSchemaLeft(s, x, ctx, _parse(s.left, x, fork(ctx)))

\* String(value) of a value that is not a string
StringOf(x) ==
  CASE x.t = "undefined" -> "undefined"
    [] x.t = "null" -> "null"
    [] x.t = "boolean" -> IF x.b THEN "true" ELSE "false"
    [] x.t = "nan" -> "NaN"
    [] x.t = "number" ->
         (CASE x.n = 0 -> "0" [] x.n = 1 -> "1" [] x.n = -1 -> "-1" [] OTHER -> "number")
    [] OTHER -> "[object]"

DiscriminatedUnionSchemaBranch(parsed) ==
  IF parsed.thrown THEN parsed
  ELSE IF ~parsed.ok THEN invalid(parsed.ctx)
  ELSE ok(parsed.value, parsed.ctx)

DiscriminatedUnionSchemaValueFirstBranch(s, x, ctx, discriminatorValue, allowed) ==
  IF typeOf(discriminatorValue) # "string"
    THEN invalid(addIssue(ctx, IssueInput("invalid_discriminator",
                   [discriminator |-> StringOf(discriminatorValue),
                    allowedDiscriminators |-> allowed])))
  ELSE DiscriminatedUnionSchemaBranch(
         _parse(IF hasOwn(s.branches, discriminatorValue.s)
                  THEN GetProp(s.branches, discriminatorValue.s) ELSE s.branches[1][2],
                x, ctx))

DiscriminatedUnionSchemaValue(s, x, ctx, discriminatorValue, allowed) ==
  IF typeOf(discriminatorValue) # "string"
    THEN invalid(addIssue(ctx, IssueInput("invalid_discriminator",
                   [discriminator |-> StringOf(discriminatorValue),
                    allowedDiscriminators |-> allowed])))
  ELSE IF ~hasOwn(s.branches, discriminatorValue.s)
    THEN invalid(addIssue(ctx, IssueInput("invalid_discriminator",
                   [discriminator |-> discriminatorValue.s,
                    allowedDiscriminators |-> allowed])))
  ELSE DiscriminatedUnionSchemaBranch(
         _parse(GetProp(s.branches, discriminatorValue.s), x, ctx))

DiscriminatedUnionSchema_parse(s, x, ctx) ==
  IF ~isPlainObject(x)
    THEN invalid(addIssue(ctx, IssueInput("invalid_type",
                   [expected |-> "object", received |-> getValueType(x)])))
  ELSE DiscriminatedUnionSchemaValue(s, x, ctx, GetProp(x.props, s.discriminator),
                                     ObjectKeys(s.branches))

(***************************************************************************)
(* The dispatch of schema._parse on the node's class.                      *)
(***************************************************************************)
_parse(s, x, ctx) ==
  CASE s.kind = "string" -> StringSchema_parse(s, x, ctx)
    [] s.kind = "number" -> NumberSchema_parse(s, x, ctx)
    [] s.kind = "boolean" -> BooleanSchema_parse(s, x, ctx)
    [] s.kind = "date" -> DateSchema_parse(s, x, ctx)
    [] s.kind = "bigint" -> BigIntSchema_parse(s, x, ctx)
    [] s.kind = "literal" -> LiteralSchema_parse(s, x, ctx)
    [] s.kind = "enum" -> EnumSchema_parse(s, x, ctx)
    [] s.kind = "any" -> AnySchema_parse(s, x, ctx)
    [] s.kind = "never" -> NeverSchema_parse(s, x, ctx)
    [] s.kind = "null" -> NullSchema_parse(s, x, ctx)
    [] s.kind = "undefined" -> UndefinedSchema_parse(s, x, ctx)
    [] s.kind = "optional" -> OptionalSchema_parse(s, x, ctx)
    [] s.kind = "nullable" -> NullableSchema_parse(s, x, ctx)
    [] s.kind = "default" -> DefaultSchema_parse(s, x, ctx)
    [] s.kind = "catch" -> CatchSchema_parse(s, x, ctx)
    [] s.kind = "refine" -> RefinementSchema_parse(s, x, ctx)
    [] s.kind = "transform" -> TransformSchema_parse(s, x, ctx)
    [] s.kind = "pipe" -> PipelineSchema_parse(s, x, ctx)
    [] s.kind = "preprocess" -> PreprocessSchema_parse(s, x, ctx)
    [] s.kind = "array" -> ArraySchema_parse(s, x, ctx)
    [] s.kind = "tuple" -> TupleSchema_parse(s, x, ctx)
    [] s.kind = "record" -> RecordSchema_parse(s, x, ctx)
    [] s.kind = "strictRecord" -> StrictRecordSchema_parse(s, x, ctx)
    [] s.kind = "set" -> SetSchema_parse(s, x, ctx)
    [] s.kind = "map" -> MapSchema_parse(s, x, ctx)
    [] s.kind = "object" -> ObjectSchema_parse(s, x, ctx)
    [] s.kind = "union" -> UnionSchema_parse(s, x, ctx)
    [] s.kind = "intersection" -> IntersectionSchema_parse(s, x, ctx)
    [] s.kind = "discriminatedUnion" -> DiscriminatedUnionSchema_parse(s, x, ctx)
    [] s = NoNode -> throws(ctx)          \* undefined._parse: TypeError

(***************************************************************************)
(* The public entry points of BaseSchema.                                  *)
(***************************************************************************)
\* what a call hands to its caller; kind is "success" or "failure"
\* (SafeParseResult), "returned" or "threw" (parse), or "exception" when an
\* error other than ValdixError left the call
Outcome(kind, data, issues, calls) ==
  [kind |-> kind, data |-> data, issues |-> issues, calls |-> calls]

\* result: what this._parse(input, ctx) handed back
safeParseResult(result) ==
  IF result.thrown THEN Outcome("exception", Undef, <<>>, result.ctx.calls)
  ELSE IF result.ok /\ Len(result.ctx.issues) = 0
    THEN Outcome("success", result.value, <<>>, result.ctx.calls)
  ELSE Outcome("failure", Undef, result.ctx.issues, result.ctx.calls)

safeParse(s, x, options) == safeParseResult(_parse(s, x, createParseContext(options)))

\* result: what this.safeParse(input, options) handed back
parseResult(result) ==
  IF result.kind = "exception" THEN result
  ELSE IF result.kind # "success" THEN Outcome("threw", Undef, result.issues, result.calls)
  ELSE Outcome("returned", result.data, <<>>, result.calls)

parseResultSwallows(result) ==
  IF result.kind = "exception" THEN result
  ELSE Outcome("returned", result.data, <<>>, result.calls)

parseSwallows(s, x, options) == parseResultSwallows(safeParse(s, x, options))

parse(s, x, options) == parseResult(safeParse(s, x, options))

(***************************************************************************)
(* Builder methods.  Each returns the node it constructs; a shape is the   *)
(* <<key, node>> list of an object node in key order.                      *)
(***************************************************************************)
optional(s) == OptionalSchema(s)
nullable(s) == NullableSchema(s)
default(s, fallback) == DefaultSchema(s, fallback)
unwrap(s) == s.inner
getItemSchema(s) == s.item
withItem(s, item) == ArraySchema(item, s.rules, s.uniqueSelector)

\* this.shape[key]
ShapeGet(shape, key) == IF hasOwn(shape, key) THEN GetProp(shape, key) ELSE NoNode

\* { ...this.shape, ...nextShape }
extendShape(shape, nextShape) == Spread(shape, nextShape, 1)

\* for (const key of keys) picked[key] = this.shape[key]
RECURSIVE pickShape(_, _, _, _)
pickShape(shape, keys, index, picked) ==
  IF index > Len(keys) THEN picked
  ELSE pickShape(shape, keys, index + 1,
                 SetProp(picked, keys[index], ShapeGet(shape, keys[index])))

\* for (const key of keys) delete omitted[String(key)], on a copy of the shape
omitShape(shape, keys) ==
  SelectSeq(shape, LAMBDA field : \A i \in 1..Len(keys) : keys[i] # field[1])

partialShapeSkipsOptional(shape) ==
  [i \in 1..Len(shape) |->
     IF shape[i][2].kind = "optional" THEN shape[i] ELSE Field(shape[i][1], optional(shape[i][2]))]

\* partialShape[key] = fieldSchema.optional()
partialShape(shape) == [i \in 1..Len(shape) |-> Field(shape[i][1], optional(shape[i][2]))]

\* NoKeys stands for required() without an argument (targetKeys undefined)
NoKeys == <<"(omitted)">>
shouldRequire(keys, key) == keys = NoKeys \/ \E i \in 1..Len(keys) : keys[i] = key
requiredShape(shape, keys) ==
  [i \in 1..Len(shape) |->
     IF shouldRequire(keys, shape[i][1]) /\ shape[i][2].kind = "optional"
       THEN Field(shape[i][1], unwrap(shape[i][2]))
       ELSE shape[i]]

RECURSIVE deepPartialSchema(_)

unwrapOptional(fieldSchema) ==
  IF fieldSchema.kind = "optional" THEN unwrap(fieldSchema) ELSE fieldSchema

deepPartialShape(shape) ==
  [i \in 1..Len(shape) |->
     Field(shape[i][1], optional(deepPartialSchema(unwrapOptional(shape[i][2]))))]

deepPartial(s) == ObjectSchema(deepPartialShape(s.shape), s.policy)

deepPartialSchemaSkipsItems(s) ==
  CASE s.kind = "optional" -> optional(deepPartialSchema(unwrap(s)))
    [] s.kind = "object" -> deepPartial(s)
    [] OTHER -> s

deepPartialSchema(s) ==
  CASE s.kind = "optional" -> optional(deepPartialSchema(unwrap(s)))
    [] s.kind = "object" -> deepPartial(s)
    [] s.kind = "array" -> withItem(s, deepPartialSchema(getItemSchema(s)))
    [] OTHER -> s

(***************************************************************************)
(* The explored universe: schemas a caller can build with the factory      *)
(* functions, and inputs.                                                  *)
(***************************************************************************)
\* all sequences over S of length 0 .. n
RECURSIVE SeqsUpTo(_, _)
SeqsUpTo(S, n) ==
  IF n = 0 THEN {<<>>}
  ELSE LET shorter == SeqsUpTo(S, n - 1)
       IN shorter \cup {Append(q, e) : q \in {r \in shorter : Len(r) = n - 1}, e \in S}

Distinct(q) == \A i, j \in 1..Len(q) : i # j => q[i] # q[j]

Strings == {"a", "bb", "user"}

Primitives ==
  {Undef, Null, Sym, NaN, Bool(TRUE)} \cup {Num(n) : n \in -1..MaxNum} \cup {Str(t) : t \in Strings}

sMin2 == StringSchema(<<RuleMin(2)>>)
sMin2U == StringSchema(<<RuleMin(2), RuleRegex("^u")>>)
sStr == StringSchema(<<>>)
sNum == NumberSchema(<<>>)
sPos == NumberSchema(<<RulePositive>>)
sRole == EnumSchema(<<"admin", "user">>)

ScalarSchemas ==
  { sStr, sMin2, sMin2U, StringSchema(<<RuleLength(1), RuleEmail>>),
    sNum, sPos, NumberSchema(<<RuleMin(1), RuleNegative>>),
    NumberSchema(<<RuleMax(0), RuleNonnegative, RuleNonpositive>>),
    BooleanSchema, LiteralSchema(Str("a")), LiteralSchema(NaN), sRole,
    AnySchema, NeverSchema, NullSchema, UndefinedSchema,
    OptionalSchema(sMin2), NullableSchema(sPos),
    DefaultSchema(sRole, FallbackValue(Str("user"))),
    DefaultSchema(sMin2, FallbackValue(Str("a"))),
    DefaultSchema(sStr, FallbackFn("facUser")),
    DefaultSchema(sStr, FallbackFn("facThrow")),
    CatchSchema(sPos, FallbackValue(Num(1))),
    CatchSchema(sMin2, FallbackFn("fbNull")),
    CatchSchema(sPos, FallbackFn("fbThrow")),
    RefinementSchema(sStr, "chkTrue", NoMessage),
    RefinementSchema(sMin2, "chkFalse", NoMessage),
    RefinementSchema(sStr, "chkFalse", <<"no">>),
    RefinementSchema(sStr, "chkMsg", NoMessage),
    RefinementSchema(sMin2, "chkThrow", NoMessage),
    RefinementSchema(sNum, "chkThrow", <<"no">>),
    TransformSchema(sMin2, "trConst"), TransformSchema(sStr, "trThrow"),
    TransformSchema(sNum, "trUndef"),
    PipelineSchema(TransformSchema(sMin2, "trConst"), sMin2U),
    PreprocessSchema("coerceNumber", sPos),
    PreprocessSchema("ppIdentity", sMin2),
    PreprocessSchema("ppThrow", sStr) }

UnionSchemas ==
  { UnionSchema(<<StringSchema(<<RuleRegex("^u")>>), sPos>>),
    UnionSchema(<<sMin2U, sStr, PreprocessSchema("ppIdentity", AnySchema)>>),
    UnionSchema(<<PreprocessSchema("ppIdentity", sPos), sNum,
                  PreprocessSchema("coerceNumber", sNum)>>),
    UnionSchema(<<sMin2, UnionSchema(<<sPos, RefinementSchema(sStr, "chkFalse", NoMessage)>>)>>),
    UnionSchema(<<sPos, PreprocessSchema("ppThrow", sStr)>>),
    IntersectionSchema(sMin2, StringSchema(<<RuleRegex("^u")>>)),
    IntersectionSchema(sNum, TransformSchema(sNum, "trUndef")),
    IntersectionSchema(AnySchema, PreprocessSchema("ppIdentity", AnySchema)) }

sUnion == UnionSchema(<<StringSchema(<<RuleRegex("^u")>>), sPos>>)
sInner == ObjectSchema(<<Field("b", sStr), Field("x", OptionalSchema(sNum))>>, "strict")

ObjectSchemas ==
  { ObjectSchema(<<Field("a", sMin2), Field("b", sPos)>>, "strip"),
    ObjectSchema(<<Field("a", sMin2), Field("b", sPos)>>, "strict"),
    ObjectSchema(<<Field("a", sMin2U)>>, "strict"),
    ObjectSchema(<<Field("b", sPos), Field("a", sMin2)>>, "passthrough"),
    ObjectSchema(<<Field("a", sStr), Field("b", OptionalSchema(sStr))>>, "strip"),
    ObjectSchema(<<Field("a", sMin2), Field("b", OptionalSchema(sStr)),
                   Field("x", DefaultSchema(sRole, FallbackValue(Str("user"))))>>, "strip"),
    ObjectSchema(<<Field("a", DefaultSchema(sRole, FallbackValue(Str("user")))),
                   Field("b", DefaultSchema(sMin2, FallbackValue(Str("a"))))>>, "strip"),
    ObjectSchema(<<Field("a", DefaultSchema(sStr, FallbackFn("facUser"))),
                   Field("b", NullableSchema(sStr))>>, "strip"),
    ObjectSchema(<<Field("a", DefaultSchema(OptionalSchema(sStr), FallbackValue(Undef))),
                   Field("b", DefaultSchema(sStr, FallbackFn("facThrow")))>>, "strict"),
    ObjectSchema(<<Field("a", sInner), Field("b", sStr)>>, "strip"),
    ObjectSchema(<<Field("b", sMin2), Field("a", sUnion)>>, "strip"),
    ObjectSchema(<<Field("a", IntersectionSchema(sMin2, StringSchema(<<RuleRegex("^u")>>))),
                   Field("b", sUnion)>>, "strip"),
    ObjectSchema(<<Field("a", TransformSchema(sStr, "trUndef")),
                   Field("b", AnySchema)>>, "passthrough"),
    ObjectSchema(<<Field("a", RefinementSchema(OptionalSchema(sStr), "chkFalse", NoMessage)),
                   Field("b", CatchSchema(sStr, FallbackValue(Str("a"))))>>, "strip"),
    ObjectSchema(<<Field("a", UnionSchema(<<sMin2, UndefinedSchema>>)),
                   Field("b", PreprocessSchema("ppThrow", sStr))>>, "strip"),
    ObjectSchema(<<Field("a", ObjectSchema(<<Field("b", sMin2), Field("y", sNum)>>, "strip")),
                   Field("x", sNum)>>, "strict"),
    DiscriminatedUnionSchema("a",
      <<Field("user", ObjectSchema(<<Field("a", LiteralSchema(Str("user"))),
                                     Field("b", sStr)>>, "strip")),
        Field("a", ObjectSchema(<<Field("a", LiteralSchema(Str("a"))),
                                  Field("x", sNum)>>, "strict"))>>),
    DiscriminatedUnionSchema("a",
      <<Field("user", PreprocessSchema("ppIdentity",
                        ObjectSchema(<<Field("a", LiteralSchema(Str("user"))),
                                       Field("b", sMin2)>>, "strip"))),
        Field("bb", RefinementSchema(ObjectSchema(<<Field("a", AnySchema)>>, "strip"),
                                     "chkFalse", NoMessage))>>),
    IntersectionSchema(
      ObjectSchema(<<Field("a", sStr), Field("b", AnySchema)>>, "strip"),
      ObjectSchema(<<Field("b", TransformSchema(AnySchema, "trConst")), Field("x", sNum)>>,
                   "strip")),
    IntersectionSchema(AnySchema, RecordSchema(AnySchema)),
    RecordSchema(sMin2U),
    StrictRecordSchema(sMin2U, sPos),
    StrictRecordSchema(StringSchema(<<RuleRegex("^[a-z]+$")>>), sNum),
    StrictRecordSchema(TransformSchema(sStr, "trConst"), AnySchema) }

\* a plain object given by an optional value for each of the keys a, b, x
Absent == [t |-> "absent"]
Prop(key, value) == IF value = Absent THEN <<>> ELSE <<<<key, value>>>>
ValuesA ==
  { Str("a"), Str("user"), Num(1), Obj(<<>>), Obj(<<<<"b", Str("a")>>>>),
    Obj(<<<<"b", Str("a")>>, <<"y", Num(1)>>>>) }
ValuesB == {Str("a"), Num(1), Undef}
ValuesX == {Num(MaxNum)}
ObjectInputs ==
  { Obj(Prop("a", va) \o Prop("b", vb) \o Prop("x", vx)) :
      va \in ValuesA \cup {Absent}, vb \in ValuesB \cup {Absent}, vx \in ValuesX \cup {Absent} }
    \cup {Obj(<<<<"x", Num(1)>>, <<"b", Num(1)>>, <<"a", Str("user")>>>>), Arr(<<>>), Null}

Item(id) == Obj(<<<<"id", Num(id)>>>>)
sItem == ObjectSchema(<<Field("id", sNum)>>, "strip")

ArraySchemas ==
  { ArraySchema(sStr, <<>>, <<"selSelf">>),
    ArraySchema(sMin2, <<RuleMin(1)>>, <<"selSelf">>),
    ArraySchema(sItem, <<>>, <<"selId">>),
    ArraySchema(sItem, <<>>, <<"selSelf">>),
    ArraySchema(AnySchema, <<RuleMax(1), RuleLength(1)>>, <<"selId">>),
    ArraySchema(AnySchema, <<>>, <<"selConst">>),
    ArraySchema(AnySchema, <<>>, <<"selThrow">>),
    ArraySchema(sMin2, <<RuleMin(1)>>, NoSelector),
    TupleSchema(<<sMin2U, sItem>>),
    IntersectionSchema(AnySchema, NullableSchema(AnySchema)),
    IntersectionSchema(ArraySchema(AnySchema, <<>>, NoSelector), AnySchema) }

Elements == {Str("a"), Str("bb"), Item(0), Item(1)}
ArrayInputs == {Arr(q) : q \in SeqsUpTo(Elements, MaxLen)} \cup {Arr(<<Null, Undef>>), Obj(<<>>)}

CollectionSchemas ==
  { SetSchema(sMin2U, <<RuleMin(1), RuleMax(1)>>),
    SetSchema(TransformSchema(sStr, "trConst"), <<>>),
    MapSchema(sMin2U, sPos, <<RuleMin(1)>>),
    MapSchema(AnySchema, sStr, <<RuleMax(1)>>),
    ObjectSchema(<<Field("a", sMin2), Field("b", SetSchema(sStr, <<>>))>>, "strip") }

Members == {Str("a"), Str("user"), Num(0)}
CollectionInputs ==
  {SetV(q) : q \in {r \in SeqsUpTo(Members, MaxLen) : Distinct(r)}}
    \cup {MapV(q) : q \in {r \in SeqsUpTo(Members \X {Str("a"), Num(1)}, MaxLen) :
                             Distinct([i \in 1..Len(r) |-> r[i][1]])}}
    \cup {Obj(<<<<"a", Str("a")>>, <<"b", SetV(<<Str("a")>>)>>>>),
          Obj(<<<<"a", Str("bb")>>, <<"b", SetV(<<Str("a")>>)>>>>), Arr(<<>>)}

\* the primitive nodes with rules that are not among the scalars above
RuledSchemas ==
  { DateSchema(<<RuleMin(1), RuleMax(0)>>), DateSchema(<<RuleMax(0)>>),
    BigIntSchema(<<RuleMin(1), RulePositive, RuleNegative>>),
    BigIntSchema(<<RuleMax(0), RuleNonnegative, RuleNonpositive>>) }
RuledInputs == {DateV(0), DateV(1), InvalidDate, BigV(0), BigV(1), BigV(-1), Num(1)}

Cases ==
  ((ScalarSchemas \cup UnionSchemas) \X Primitives)
    \cup (RuledSchemas \X RuledInputs)
    \cup (ObjectSchemas \X ObjectInputs)
    \cup (ArraySchemas \X ArrayInputs)
    \cup (CollectionSchemas \X CollectionInputs)

(***************************************************************************)
(* The calls a client makes on one schema with one input.                  *)
(***************************************************************************)
NoCall == [kind |-> "nocall"]
NoContext == [kind |-> "nocontext"]

AbortOptions == {"unset", "true"}
Options(abortEarly) == [abortEarly |-> abortEarly, locale |-> "unset", errorMap |-> NoMap]

\* a context as an enclosing node hands it to a child: some path, and
\* possibly an issue an earlier sibling recorded
PriorIssue ==
  [code |-> "invalid_type", info |-> [expected |-> "string", received |-> "number"],
   path |-> <<Key("z")>>, message |-> <<"id", "invalid_type">>]
NodeContexts ==
  { createContext(ParseSettings("id", ab, NoMap, NoMap), path, issues, <<>>) :
      ab \in BOOLEAN, path \in {<<>>, <<Key("p"), Idx(0)>>}, issues \in {<<>>, <<PriorIssue>>} }

\* the parts of the state a specification does not use stay as they are here
NoBuilder == nodes = <<>> /\ store = <<>> /\ built = <<>>
NoRegex == regex = NoCall /\ runs = <<>> /\ alone = NoCall
NoError == error = NoCall /\ lookup = NoCall
NoTasks == tasks = <<>> /\ contexts = <<>>
NoContexts == objects = <<>> /\ arrays = <<>> /\ history = <<>>
NoAsync == globals = NoCall /\ pending = NoCall
NoParse ==
  /\ schema = NoCall /\ input = NoCall /\ ctx0 = NoContext /\ nodeRes = NoCall
  /\ safeRes = [a \in AbortOptions |-> NoCall]
  /\ parseRes = [a \in AbortOptions |-> NoCall]

Init ==
  /\ \E c \in Cases : schema = c[1] /\ input = c[2]
  /\ ctx0 = NoContext
  /\ nodeRes = NoCall
  /\ safeRes = [a \in AbortOptions |-> NoCall]
  /\ parseRes = [a \in AbortOptions |-> NoCall]
  /\ NoBuilder /\ NoRegex /\ NoError /\ NoTasks /\ NoContexts /\ NoAsync

Untouched == nodeRes = NoCall /\ \A a \in AbortOptions : safeRes[a] = NoCall

\* schema._parse(input, ctx) called directly, as a composite node calls its child
ParseNode(ctx) ==
  /\ Untouched
  /\ ctx0' = ctx
  /\ nodeRes' = [kind |-> "node", res |-> _parse(schema, input, ctx)]
  /\ UNCHANGED <<schema, input, safeRes, parseRes, builderVars, regexVars, errorVars, taskVars, contextVars, asyncVars>>

\* schema.safeParse(input, options)
SafeParse(a) ==
  /\ nodeRes = NoCall
  /\ safeRes[a] = NoCall
  /\ safeRes' = [safeRes EXCEPT ![a] = safeParse(schema, input, Options(a))]
  /\ UNCHANGED <<schema, input, ctx0, nodeRes, parseRes, builderVars, regexVars, errorVars, taskVars, contextVars, asyncVars>>

\* schema.parse(input, options)
Parse(a) ==
  /\ safeRes[a] # NoCall
  /\ parseRes[a] = NoCall
  /\ parseRes' = [parseRes EXCEPT ![a] = parse(schema, input, Options(a))]
  /\ UNCHANGED <<schema, input, ctx0, nodeRes, safeRes, builderVars, regexVars, errorVars, taskVars, contextVars, asyncVars>>

Next ==
  \/ \E ctx \in NodeContexts : ParseNode(ctx)
  \/ \E a \in AbortOptions : SafeParse(a)
  \/ \E a \in AbortOptions : Parse(a)

Spec == Init /\ [][Next]_vars

TypeOK ==
  /\ nodeRes.kind \in {"nocall", "node"}
  /\ \A a \in AbortOptions :
       /\ safeRes[a].kind \in {"nocall", "success", "failure", "exception"}
       /\ parseRes[a].kind \in {"nocall", "returned", "threw", "exception"}

(***************************************************************************)
(* Properties.                                                             *)
(***************************************************************************)
Finished(r) == r.kind \in {"success", "failure"}

\* the (code, path) of each issue, in order
CodePaths(issues) == [i \in 1..Len(issues) |-> <<issues[i].code, issues[i].path>>]

IsPrefix(p, q) == Len(p) <= Len(q) /\ SubSeq(q, 1, Len(p)) = p

\* C1: when safeParse returns success with data d, parse returns d without
\* throwing; when safeParse returns failure, parse throws a ValdixError with
\* the identical issue list (codes, paths, messages, order).
ParseAgreesWithSafeParse ==
  \A a \in AbortOptions :
    parseRes[a] # NoCall =>
      /\ safeRes[a].kind = "success" =>
           parseRes[a].kind = "returned" /\ parseRes[a].data = safeRes[a].data
      /\ safeRes[a].kind = "failure" =>
           parseRes[a].kind = "threw" /\ parseRes[a].issues = safeRes[a].issues

\* parse has thrown a ValdixError carrying several issues
ParseThrewSeveralIssues ==
  \E a \in AbortOptions :
    /\ safeRes[a].kind = "failure"
    /\ parseRes[a].kind = "threw"
    /\ Len(parseRes[a].issues) >= 2

\* C2: safeParse never throws: every call returns {success: true, data} or
\* {success: false, error}, whatever the schema's user callbacks do.
SafeParseNeverThrows ==
  \A a \in AbortOptions : safeRes[a] # NoCall => Finished(safeRes[a])

\* C3: the (code, path) sequence of the issues under abortEarly=true is a
\* prefix of the sequence under abortEarly=false for the same schema and
\* input, and both runs agree on success versus failure.
AbortEarlyIsPrefix ==
  (Finished(safeRes["true"]) /\ Finished(safeRes["unset"])) =>
    /\ IsPrefix(CodePaths(safeRes["true"].issues), CodePaths(safeRes["unset"].issues))
    /\ safeRes["true"].kind = safeRes["unset"].kind

\* C4: with abortEarly=true every failed safeParse reports exactly one issue.
AbortEarlyOneIssue ==
  safeRes["true"].kind = "failure" => Len(safeRes["true"].issues) = 1

\* the issues of a list that lie at or below a path
IssuesUnder(issues, prefix) == SelectSeq(issues, LAMBDA e : IsPrefix(prefix, e.path))

\* the value default(v) substitutes for undefined, and what the wrapped
\* schema makes of it
DefaultOf(f) ==
  IF f.fallback.isFn THEN CallUser(f.fallback.id, Undef) ELSE Returns(f.fallback.value)
ValidatedDefault(f, a) ==
  _parse(f.inner, DefaultOf(f).value, createParseContext(Options(a)))

\* C5 as stated: for a declared key the input lacks, optional() adds no
\* issue and leaves the key out of the output; default(v) adds no issue and
\* the output has the key set to the validated default; a successful output
\* has no declared key whose value is undefined.
MissingKeyOptionalOrDefault ==
  \A a \in AbortOptions :
    (schema.kind = "object" /\ isPlainObject(input) /\ Finished(safeRes[a])) =>
      \A i \in 1..Len(schema.shape) :
        LET key == schema.shape[i][1]
            f == schema.shape[i][2]
            r == safeRes[a]
            missing == ~hasOwn(input.props, key)
        IN /\ (missing /\ f.kind = "optional") =>
                /\ IssuesUnder(r.issues, <<Key(key)>>) = <<>>
                /\ r.kind = "success" => ~hasOwn(r.data.props, key)
           /\ (missing /\ f.kind = "default") =>
                /\ IssuesUnder(r.issues, <<Key(key)>>) = <<>>
                /\ r.kind = "success" =>
                     /\ hasOwn(r.data.props, key)
                     /\ GetProp(r.data.props, key) = ValidatedDefault(f, a).value
           /\ (r.kind = "success" /\ hasOwn(r.data.props, key)) =>
                GetProp(r.data.props, key) # Undef

\* C5: for a declared key the input lacks, optional() adds no issue and
\* leaves the key out of the output; default(v) whose wrapped schema accepts
\* v with zero issues adds no issue and the output has the key set to the
\* validated default (the key is left out when that value is undefined);
\* default(v) whose wrapped schema does not accept v gets one 'required'
\* issue at the key under abortEarly=false; a successful output has no
\* declared key whose value is undefined.
MissingKeyResolved ==
  \A a \in AbortOptions :
    (schema.kind = "object" /\ isPlainObject(input) /\ Finished(safeRes[a])) =>
      \A i \in 1..Len(schema.shape) :
        LET key == schema.shape[i][1]
            f == schema.shape[i][2]
            r == safeRes[a]
            missing == ~hasOwn(input.props, key)
            at == IssuesUnder(r.issues, <<Key(key)>>)
        IN /\ (missing /\ f.kind = "optional") =>
                /\ at = <<>>
                /\ r.kind = "success" => ~hasOwn(r.data.props, key)
           /\ (missing /\ f.kind = "default") =>
                LET made == DefaultOf(f)
                    v == ValidatedDefault(f, a)
                    accepted == ~made.thrown /\ v.ok /\ Len(v.ctx.issues) = 0
                IN /\ accepted =>
                        /\ at = <<>>
                        /\ r.kind = "success" =>
                             IF v.value = Undef THEN ~hasOwn(r.data.props, key)
                             ELSE /\ hasOwn(r.data.props, key)
                                  /\ GetProp(r.data.props, key) = v.value
                   /\ (~accepted /\ a = "unset") =>
                        CodePaths(at) = << <<"required", <<Key(key)>>>> >>
           /\ (r.kind = "success" /\ hasOwn(r.data.props, key)) =>
                GetProp(r.data.props, key) # Undef

\* a parse succeeded on an input lacking an optional() key and a default(v)
\* key: the output has the defaulted key and not the optional one
DefaultedKeyInOutput ==
  /\ schema.kind = "object" /\ isPlainObject(input)
  /\ safeRes["unset"].kind = "success"
  /\ \E i, j \in 1..Len(schema.shape) :
       /\ schema.shape[i][2].kind = "optional" /\ schema.shape[j][2].kind = "default"
       /\ ~hasOwn(input.props, schema.shape[i][1]) /\ ~hasOwn(input.props, schema.shape[j][1])
       /\ ~hasOwn(safeRes["unset"].data.props, schema.shape[i][1])
       /\ GetProp(safeRes["unset"].data.props, schema.shape[j][1]) = Str("user")

\* the issues a node added to the context it was handed
NewIssues ==
  SubSeq(nodeRes.res.ctx.issues, Len(ctx0.issues) + 1, Len(nodeRes.res.ctx.issues))

\* the field schema applied to undefined in a context with no issues
Probe(f) == _parse(f, Undef, [ctx0 EXCEPT !.issues = <<>>])

Undeclared ==
  SelectSeq(ObjectKeys(input.props),
            LAMBDA key : \A i \in 1..Len(schema.shape) : schema.shape[i][1] # key)

\* the same object evaluated under the strip policy: its declared fields only
DeclaredOnly == _parse([schema EXCEPT !.policy = "strip"], input, ctx0)

\* C7: a strict object whose declared fields are all valid fails exactly when
\* the input has an undeclared key, and then adds exactly one issue:
\* 'unknown_keys' at the object's own path, keys = the undeclared input
\* keys; when the issue is added it comes after every issue of the declared
\* fields.
StrictUnknownKeys ==
  (nodeRes.kind = "node" /\ schema.kind = "object" /\ schema.policy = "strict"
     /\ isPlainObject(input) /\ ~nodeRes.res.thrown) =>
    LET res == nodeRes.res
        fields == DeclaredOnly
        unknownIssue == [code |-> "unknown_keys", info |-> [keys |-> Undeclared],
                         path |-> ctx0.path, message |-> <<ctx0.locale, "unknown_keys">>]
    IN /\ (fields.ok /\ fields.ctx.issues = ctx0.issues) =>
            IF Len(Undeclared) = 0 THEN res.ok /\ NewIssues = <<>>
            ELSE ~res.ok /\ NewIssues = <<unknownIssue>>
       /\ (Len(Undeclared) > 0 /\ ~ctx0.abortEarly) =>
            ~res.ok /\ res.ctx.issues = Append(fields.ctx.issues, unknownIssue)
       /\ \A n \in 1..Len(NewIssues) :
            (NewIssues[n].code = "unknown_keys" /\ NewIssues[n].path = ctx0.path) =>
              n = Len(NewIssues)

\* a nested strict object with valid declared fields met an undeclared key
StrictRejectedUndeclared ==
  /\ nodeRes.kind = "node" /\ schema.kind = "object" /\ schema.policy = "strict"
  /\ isPlainObject(input) /\ Len(ctx0.path) = 2
  /\ DeclaredOnly.ok /\ DeclaredOnly.ctx.issues = ctx0.issues
  /\ Len(Undeclared) > 0 /\ Len(schema.shape) > Len(Undeclared)
  /\ ~nodeRes.res.ok
  /\ CodePaths(NewIssues) = << <<"unknown_keys", ctx0.path>> >>

\* element i of the input array as the item schema validates it, and the key
\* the selector gives for it
ElementOut(i) == _parse(schema.item, input.items[i], createParseContext(Options("unset")))
SelectorKey(i) == CallUser(schema.uniqueSelector[1], ElementOut(i).value)
SameKey(j, i) ==
  /\ ~SelectorKey(j).thrown /\ ~SelectorKey(i).thrown
  /\ ObjectIs(SelectorKey(j).value, SelectorKey(i).value)

\* an array schema with unique(selector) on an array that meets the length
\* rules and whose elements all validate
UniqueCase ==
  /\ schema.kind = "array" /\ schema.uniqueSelector # NoSelector /\ input.t = "array"
  /\ \A n \in 1..Len(schema.rules) :
       ArrayRuleIssue(schema.rules[n], Len(input.items)) = NoViolation
  /\ \A i \in 1..Len(input.items) : ElementOut(i).ok /\ Len(ElementOut(i).ctx.issues) = 0

\* the (1-based) indexes of the elements a result flags with 'invalid_array'
Flagged(r) ==
  {i \in 1..Len(input.items) :
     \E n \in 1..Len(r.issues) :
       r.issues[n].code = "invalid_array" /\ r.issues[n].path = <<Idx(i - 1)>>}

Repeats == {i \in 1..Len(input.items) : \E j \in 1..(i - 1) : SameKey(j, i)}
RepeatsOrThrows ==
  {i \in 1..Len(input.items) : SelectorKey(i).thrown \/ \E j \in 1..(i - 1) : SameKey(j, i)}

\* C8 as stated: with all elements valid, 'invalid_array' is recorded at [i]
\* exactly when some j < i has the same selector key; the first occurrence
\* of a key is never flagged; distinct keys make the parse succeed.
UniqueFlagsRepeats ==
  (UniqueCase /\ Finished(safeRes["unset"])) =>
    /\ Flagged(safeRes["unset"]) = Repeats
    /\ Repeats = {} => safeRes["unset"].kind = "success"

\* C8: with all elements valid and abortEarly=false, exactly one issue,
\* 'invalid_array', is recorded at [i] exactly when the selector throws on
\* element i or some j < i has the same selector key; the first occurrence
\* of a key is never flagged; when no element is flagged the parse succeeds.
\* With abortEarly=true only the lowest such index is flagged.
UniqueFlagsRepeatsOrThrows ==
  \A a \in AbortOptions :
    (UniqueCase /\ Finished(safeRes[a])) =>
      LET r == safeRes[a]
      IN /\ \A n \in 1..Len(r.issues) : r.issues[n].code = "invalid_array"
         /\ RepeatsOrThrows = {} <=> r.kind = "success"
         /\ a = "unset" =>
              Flagged(r) = RepeatsOrThrows /\ Len(r.issues) = Cardinality(RepeatsOrThrows)
         /\ (a = "true" /\ RepeatsOrThrows # {}) =>
              /\ Len(r.issues) = 1
              /\ Flagged(r) = {CHOOSE i \in RepeatsOrThrows : \A j \in RepeatsOrThrows : i <= j}

\* three elements with one selector key: the second and the third are flagged
UniqueFlaggedSecondAndThird ==
  /\ UniqueCase /\ schema.uniqueSelector = <<"selId">>
  /\ Len(input.items) = 3 /\ SameKey(1, 2) /\ SameKey(1, 3)
  /\ safeRes["unset"].kind = "failure"
  /\ CodePaths(safeRes["unset"].issues) =
       << <<"invalid_array", <<Idx(1)>>>>, <<"invalid_array", <<Idx(2)>>>> >>

\* option i of the union evaluated on the input in a fork of the caller's context
Branch(i) == _parse(schema.options[i], input, [ctx0 EXCEPT !.issues = <<>>])
Wins(i) == ~Branch(i).thrown /\ Branch(i).ok /\ Len(Branch(i).ctx.issues) = 0

\* the callbacks options 1 .. n execute, and the issues they record
RECURSIVE BranchCalls(_)
BranchCalls(n) == IF n = 0 THEN <<>> ELSE BranchCalls(n - 1) \o Branch(n).ctx.calls
RECURSIVE BranchIssues(_)
BranchIssues(n) == IF n = 0 THEN <<>> ELSE BranchIssues(n - 1) \o Branch(n).ctx.issues

\* C9: a union returns the value of the lowest-index option that succeeds
\* with zero issues in its fork; the options after it are not evaluated
\* (none of their callbacks runs); the caller's issue list and path are what
\* they were before the union was evaluated.
UnionFirstWinner ==
  (nodeRes.kind = "node" /\ schema.kind = "union") =>
    \A w \in 1..Len(schema.options) :
      (Wins(w) /\ \A j \in 1..(w - 1) : ~Wins(j) /\ ~Branch(j).thrown) =>
        /\ nodeRes.res.ok /\ ~nodeRes.res.thrown
        /\ nodeRes.res.value = Branch(w).value
        /\ nodeRes.res.ctx.issues = ctx0.issues
        /\ nodeRes.res.ctx.path = ctx0.path
        /\ nodeRes.res.ctx.calls = BranchCalls(w)

\* the second of three options won after the first recorded issues; the
\* third, which would succeed too and run a callback, was not evaluated
UnionSecondOptionWon ==
  /\ nodeRes.kind = "node" /\ schema.kind = "union" /\ Len(schema.options) = 3
  /\ Len(ctx0.issues) = 1 /\ Len(ctx0.path) = 2
  /\ Len(Branch(1).ctx.issues) > 0 /\ Wins(2)
  /\ Wins(3) /\ Len(Branch(3).ctx.calls) > 0
  /\ nodeRes.res.ok /\ nodeRes.res.ctx.calls = <<>>

\* C10: when no option succeeds the union fails and appends exactly one
\* 'invalid_union' issue whose unionErrors holds one issue list per option in
\* declared order; under abortEarly=false every option's issues follow it in
\* option order, under abortEarly=true nothing follows it.
UnionAllFailed ==
  (nodeRes.kind = "node" /\ schema.kind = "union"
     /\ \A i \in 1..Len(schema.options) : ~Wins(i) /\ ~Branch(i).thrown) =>
    LET unionIssue ==
          [code |-> "invalid_union",
           info |-> [unionErrors |-> [i \in 1..Len(schema.options) |-> Branch(i).ctx.issues]],
           path |-> ctx0.path, message |-> <<ctx0.locale, "invalid_union">>]
    IN /\ ~nodeRes.res.ok /\ ~nodeRes.res.thrown
       /\ nodeRes.res.ctx.path = ctx0.path
       /\ nodeRes.res.ctx.issues =
            ctx0.issues \o <<unionIssue>>
              \o (IF ctx0.abortEarly THEN <<>> ELSE BranchIssues(Len(schema.options)))

\* every option of a nested union failed under abortEarly=false: the
\* 'invalid_union' issue is followed by the issues of the options
UnionFailedWithBranchIssues ==
  /\ nodeRes.kind = "node" /\ schema.kind = "union" /\ Len(schema.options) >= 2
  /\ ~ctx0.abortEarly /\ Len(ctx0.issues) = 1 /\ Len(ctx0.path) = 2
  /\ \A i \in 1..Len(schema.options) : Len(Branch(i).ctx.issues) > 0
  /\ NewIssues[1].code = "invalid_union"
  /\ Len(NewIssues) = 1 + Len(BranchIssues(Len(schema.options)))

\* what one side of the intersection does on the input, evaluated alone
LeftSide(a) == _parse(schema.left, input, createParseContext(Options(a)))
RightSide(a) == _parse(schema.right, input, createParseContext(Options(a)))

SideClean(r) == ~r.thrown /\ r.ok /\ Len(r.ctx.issues) = 0

KeysOf(v) == {v.props[i][1] : i \in 1..Len(v.props)}

\* the shallow union of two plain objects, the right one winning a collision
IsShallowUnion(data, l, r) ==
  /\ isPlainObject(data)
  /\ KeysOf(data) = KeysOf(l) \cup KeysOf(r)
  /\ \A k \in KeysOf(data) :
       GetProp(data.props, k) = IF hasOwn(r.props, k) THEN GetProp(r.props, k)
                                ELSE GetProp(l.props, k)

\* C11: when both sides of an intersection succeed with zero issues, two
\* plain-object outputs are merged into the union of their keys with the
\* right side's value on a collision; otherwise identical outputs
\* (Object.is) give the left output, and any other pair fails with exactly
\* one invalid_intersection issue.
IntersectionMerges ==
  \A a \in AbortOptions :
    (schema.kind = "intersection" /\ safeRes[a] # NoCall
       /\ SideClean(LeftSide(a)) /\ SideClean(RightSide(a)))
    => IF isPlainObject(LeftSide(a).value) /\ isPlainObject(RightSide(a).value)
         THEN /\ safeRes[a].kind = "success"
              /\ IsShallowUnion(safeRes[a].data, LeftSide(a).value, RightSide(a).value)
       ELSE IF SameOutput(LeftSide(a).value, RightSide(a).value)
         THEN safeRes[a].kind = "success" /\ safeRes[a].data = LeftSide(a).value
       ELSE /\ safeRes[a].kind = "failure"
            /\ Len(safeRes[a].issues) = 1
            /\ safeRes[a].issues[1].code = "invalid_intersection"

\* input[this.discriminator]
Tag == GetProp(input.props, schema.discriminator)

Routed == typeOf(Tag) = "string" /\ hasOwn(schema.branches, Tag.s)

\* C12: on a plain-object input whose discriminator field is missing, not a
\* string or not a declared tag, the discriminated union fails with exactly
\* one issue, invalid_discriminator listing the declared tags, and evaluates
\* no branch; otherwise the call does exactly what the branch registered
\* under the tag does on the input: same outcome, same issues, same callbacks.
DiscriminatorRouting ==
  \A a \in AbortOptions :
    (schema.kind = "discriminatedUnion" /\ isPlainObject(input) /\ safeRes[a] # NoCall)
    => IF ~Routed
         THEN /\ safeRes[a].kind = "failure"
              /\ Len(safeRes[a].issues) = 1
              /\ safeRes[a].issues[1].code = "invalid_discriminator"
              /\ safeRes[a].issues[1].path = <<>>
              /\ safeRes[a].issues[1].info.allowedDiscriminators = ObjectKeys(schema.branches)
              /\ safeRes[a].calls = <<>>
         ELSE safeRes[a] = safeParse(GetProp(schema.branches, Tag.s), input, Options(a))

\* a routed call whose branch ran a callback and failed on another field, and
\* a call on the same schema shape that was refused for its tag
DiscriminatorRoutedToFailingBranch ==
  /\ schema.kind = "discriminatedUnion" /\ isPlainObject(input)
  /\ safeRes["unset"] # NoCall /\ safeRes["true"] # NoCall
  /\ Routed
  /\ safeRes["unset"].kind = "failure"
  /\ safeRes["unset"].calls # <<>>
  /\ \E i \in 1..Len(safeRes["unset"].issues) : safeRes["unset"].issues[i].path = <<Key("b")>>

(***************************************************************************)
(* Builder calls on schema objects.  A schema object holds references:     *)
(* `nodes` is the heap of schema objects (a handle is an index), `store`   *)
(* is the heap of the shape objects and rule arrays they point to, so that *)
(* two objects can share one shape or one rule array.  Field and item      *)
(* schemas inside a shape are values.  `built` is the list of the builder  *)
(* calls made so far.                                                      *)
(***************************************************************************)
MaxCalls == 2      \* builder calls in one run

ObjectNode(shape, policy) == [class |-> "ObjectSchema", shape |-> shape, policy |-> policy]
StringNode(rules) == [class |-> "StringSchema", rules |-> rules]
ArrayNode(item, rules, uniqueSelector) ==
  [class |-> "ArraySchema", item |-> item, rules |-> rules, uniqueSelector |-> uniqueSelector]
WrapperNode(class, inner, fallback) == [class |-> class, inner |-> inner, fallback |-> fallback]

\* the schema a handle stands for, with its references followed
RECURSIVE Resolve(_, _, _)
Resolve(ns, st, h) ==
  CASE ns[h].class = "ObjectSchema" -> ObjectSchema(st[ns[h].shape], ns[h].policy)
    [] ns[h].class = "StringSchema" -> StringSchema(st[ns[h].rules])
    [] ns[h].class = "ArraySchema" ->
         ArraySchema(ns[h].item, st[ns[h].rules], ns[h].uniqueSelector)
    [] ns[h].class = "OptionalSchema" -> optional(Resolve(ns, st, ns[h].inner))
    [] ns[h].class = "NullableSchema" -> nullable(Resolve(ns, st, ns[h].inner))
    [] ns[h].class = "DefaultSchema" -> default(Resolve(ns, st, ns[h].inner), ns[h].fallback)

Node(h) == Resolve(nodes, store, h)

\* op(args) called on the object `receiver`; result is the handle of the
\* object it returned, or Threw
Threw == 0
BuilderCall(op, receiver, args, result) ==
  [op |-> op, receiver |-> receiver, args |-> args, result |-> result]

Handles == 1..Len(nodes)
IsObject(h) == nodes[h].class = "ObjectSchema"
ShapeOf(h) == store[nodes[h].shape]
MayCall == nodes # <<>> /\ Len(built) < MaxCalls

\* the shape holds a slot without a node: calling a method on it is a TypeError
HasEmptySlot(shape) == \E i \in 1..Len(shape) : shape[i][2] = NoNode

\* return new C(...): the object gets the next handle
Construct(op, receiver, args, node) ==
  /\ nodes' = Append(nodes, node)
  /\ built' = Append(built, BuilderCall(op, receiver, args, Len(nodes) + 1))

\* the call threw before it constructed anything
Throw(op, receiver, args) ==
  /\ built' = Append(built, BuilderCall(op, receiver, args, Threw))
  /\ UNCHANGED <<nodes, store>>

\* a fresh shape object or rule array
Allocate(object) == store' = Append(store, object)
Fresh == Len(store) + 1

Policies == {"strict", "passthrough", "strip"}

\* strict(), passthrough(), strip(): the new object points to the receiver's shape
SetPolicy(h, policy) ==
  /\ MayCall /\ IsObject(h)
  /\ Construct(policy, h, <<>>, ObjectNode(nodes[h].shape, policy))
  /\ UNCHANGED <<store, parseVars, regexVars, errorVars, taskVars, contextVars, asyncVars>>

Extend(h, nextShape) ==
  /\ MayCall /\ IsObject(h)
  /\ Allocate(extendShape(ShapeOf(h), nextShape))
  /\ Construct("extend", h, nextShape, ObjectNode(Fresh, nodes[h].policy))
  /\ UNCHANGED <<parseVars, regexVars, errorVars, taskVars, contextVars, asyncVars>>

Merge(h, other) ==
  /\ MayCall /\ IsObject(h) /\ IsObject(other)
  /\ Allocate(extendShape(ShapeOf(h), ShapeOf(other)))
  /\ Construct("merge", h, other, ObjectNode(Fresh, nodes[h].policy))
  /\ UNCHANGED <<parseVars, regexVars, errorVars, taskVars, contextVars, asyncVars>>

Pick(h, keys) ==
  /\ MayCall /\ IsObject(h)
  /\ Allocate(pickShape(ShapeOf(h), keys, 1, <<>>))
  /\ Construct("pick", h, keys, ObjectNode(Fresh, nodes[h].policy))
  /\ UNCHANGED <<parseVars, regexVars, errorVars, taskVars, contextVars, asyncVars>>

\* delete this.shape[key], without the copy
omitInPlace(st, shape, keys) ==
  Append([st EXCEPT ![shape] = omitShape(st[shape], keys)], omitShape(st[shape], keys))

\* const omitted = { ...this.shape }; delete omitted[key]
omitCopy(st, shape, keys) == Append(st, omitShape(st[shape], keys))

Omit(h, keys) ==
  /\ MayCall /\ IsObject(h)
  /\ store' = omitCopy(store, nodes[h].shape, keys)
  /\ Construct("omit", h, keys, ObjectNode(Fresh, nodes[h].policy))
  /\ UNCHANGED <<parseVars, regexVars, errorVars, taskVars, contextVars, asyncVars>>

Partial(h) ==
  /\ MayCall /\ IsObject(h)
  /\ IF HasEmptySlot(ShapeOf(h)) THEN Throw("partial", h, <<>>)
     ELSE /\ Allocate(partialShape(ShapeOf(h)))
          /\ Construct("partial", h, <<>>, ObjectNode(Fresh, nodes[h].policy))
  /\ UNCHANGED <<parseVars, regexVars, errorVars, taskVars, contextVars, asyncVars>>

DeepPartial(h) ==
  /\ MayCall /\ IsObject(h)
  /\ IF HasEmptySlot(ShapeOf(h)) THEN Throw("deepPartial", h, <<>>)
     ELSE /\ Allocate(deepPartialShape(ShapeOf(h)))
          /\ Construct("deepPartial", h, <<>>, ObjectNode(Fresh, nodes[h].policy))
  /\ UNCHANGED <<parseVars, regexVars, errorVars, taskVars, contextVars, asyncVars>>

Required(h, keys) ==
  /\ MayCall /\ IsObject(h)
  /\ Allocate(requiredShape(ShapeOf(h), keys))
  /\ Construct("required", h, keys, ObjectNode(Fresh, nodes[h].policy))
  /\ UNCHANGED <<parseVars, regexVars, errorVars, taskVars, contextVars, asyncVars>>

\* optional(), nullable(), default(value): new C(this)
Wrap(h, class, fallback) ==
  /\ MayCall
  /\ Construct(class, h, fallback, WrapperNode(class, h, fallback))
  /\ UNCHANGED <<store, parseVars, regexVars, errorVars, taskVars, contextVars, asyncVars>>

\* StringSchema min / max / length / regex / email: new StringSchema([...this.rules, rule])
StringWith(h, rule) ==
  /\ MayCall /\ nodes[h].class = "StringSchema"
  /\ Allocate(Append(store[nodes[h].rules], rule))
  /\ Construct(rule.kind, h, rule, StringNode(Fresh))
  /\ UNCHANGED <<parseVars, regexVars, errorVars, taskVars, contextVars, asyncVars>>

\* ArraySchema min / max / length: new ArraySchema(this.item, [...this.rules, rule], selector)
ArrayWith(h, rule) ==
  /\ MayCall /\ nodes[h].class = "ArraySchema"
  /\ Allocate(Append(store[nodes[h].rules], rule))
  /\ Construct(rule.kind, h, rule, ArrayNode(nodes[h].item, Fresh, nodes[h].uniqueSelector))
  /\ UNCHANGED <<parseVars, regexVars, errorVars, taskVars, contextVars, asyncVars>>

\* unique(selector): new ArraySchema(this.item, this.rules, extractor)
Unique(h, selector) ==
  /\ MayCall /\ nodes[h].class = "ArraySchema"
  /\ Construct("unique", h, selector, ArrayNode(nodes[h].item, nodes[h].rules, <<selector>>))
  /\ UNCHANGED <<store, parseVars, regexVars, errorVars, taskVars, contextVars, asyncVars>>

\* the schemas builder calls start from, written with the factory functions
sNested ==
  ObjectSchema(<<Field("b", sMin2),
                 Field("y", ArraySchema(sItem, <<RuleMin(1)>>, NoSelector))>>, "strict")
BuilderSchemas ==
  { ObjectSchema(<<Field("a", sMin2), Field("b", OptionalSchema(sNum))>>, "strip"),
    ObjectSchema(<<Field("a", sNested), Field("x", sNum)>>, "strict"),
    ObjectSchema(<<Field("a", OptionalSchema(OptionalSchema(sInner))),
                   Field("b", DefaultSchema(sRole, FallbackValue(Str("user"))))>>,
                 "passthrough"),
    sMin2,
    ArraySchema(sItem, <<RuleMin(1)>>, NoSelector) }

NextShapes == {<<Field("b", sStr)>>, <<Field("x", OptionalSchema(sNum)), Field("a", sNum)>>}
KeyLists == {<<"a">>, <<"x", "b">>, <<>>}
BuilderRules == {RuleMax(1), RuleRegex("^u")}

\* v.object(shape), v.string(), v.array(item) and the calls that built the
\* starting schema: one schema object with its shape or rule array
Made(s) ==
  CASE s.kind = "object" -> ObjectNode(1, s.policy)
    [] s.kind = "string" -> StringNode(1)
    [] s.kind = "array" -> ArrayNode(s.item, 1, s.uniqueSelector)
MadeObject(s) == IF s.kind = "object" THEN s.shape ELSE s.rules

BuilderInit ==
  /\ NoParse /\ NoRegex /\ NoError /\ NoTasks /\ NoContexts /\ NoAsync
  /\ \E s \in BuilderSchemas : nodes = <<Made(s)>> /\ store = <<MadeObject(s)>>
  /\ built = <<>>

BuilderNext ==
  \/ \E h \in Handles, policy \in Policies : SetPolicy(h, policy)
  \/ \E h \in Handles, nextShape \in NextShapes : Extend(h, nextShape)
  \/ \E h \in Handles, other \in Handles : Merge(h, other)
  \/ \E h \in Handles, keys \in KeyLists : Pick(h, keys)
  \/ \E h \in Handles, keys \in KeyLists : Omit(h, keys)
  \/ \E h \in Handles : Partial(h)
  \/ \E h \in Handles : DeepPartial(h)
  \/ \E h \in Handles, keys \in KeyLists \cup {NoKeys} : Required(h, keys)
  \/ \E h \in Handles : Wrap(h, "OptionalSchema", <<>>)
  \/ \E h \in Handles : Wrap(h, "NullableSchema", <<>>)
  \/ \E h \in Handles : Wrap(h, "DefaultSchema", FallbackValue(Str("bb")))
  \/ \E h \in Handles, rule \in BuilderRules : StringWith(h, rule)
  \/ \E h \in Handles, rule \in BuilderRules : ArrayWith(h, rule)
  \/ \E h \in Handles : Unique(h, "selId")

BuilderSpec == BuilderInit /\ [][BuilderNext]_vars

(***************************************************************************)
(* Properties of the builder calls.                                        *)
(***************************************************************************)
\* calls are named by their position in `built`
Calls == 1..Len(built)
Returned(op) == {call \in Calls : built[call].op = op /\ built[call].result # Threw}

\* the receiver is an object schema: every key of its shape has a node
WellFormed(h) == IsObject(h) /\ ~HasEmptySlot(ShapeOf(h))

AcceptsMissing(fieldSchema) ==
  acceptsMissingKey(fieldSchema, createParseContext(Options("unset"))).accepted

RECURSIVE Undecorated(_)
Undecorated(s) == IF s.kind = "optional" THEN Undecorated(s.inner) ELSE s

\* every field of the object schemas reached from s through object fields
\* and array items accepts a missing key
RECURSIVE OptionalAtEveryDepth(_)
OptionalAtEveryDepth(s) ==
  CASE s.kind = "optional" -> OptionalAtEveryDepth(s.inner)
    [] s.kind = "array" -> OptionalAtEveryDepth(s.item)
    [] s.kind = "object" ->
         \A i \in 1..Len(s.shape) :
           AcceptsMissing(s.shape[i][2]) /\ OptionalAtEveryDepth(s.shape[i][2])
    [] OTHER -> TRUE

\* the object schemas of d, reached the same way, have the keys and the
\* policy of those of s
RECURSIVE PoliciesKept(_, _)
PoliciesKept(s, d) ==
  CASE s.kind = "object" ->
         /\ d.kind = "object" /\ d.policy = s.policy
         /\ ObjectKeys(d.shape) = ObjectKeys(s.shape)
         /\ \A i \in 1..Len(s.shape) :
              PoliciesKept(Undecorated(s.shape[i][2]), Undecorated(d.shape[i][2]))
    [] s.kind = "array" ->
         d.kind = "array" /\ PoliciesKept(Undecorated(s.item), Undecorated(d.item))
    [] OTHER -> d.kind = s.kind

\* C13: for every object schema s, s.deepPartial() parses {} with success,
\* every field of its root shape and of every object schema reached through
\* object fields and array items accepts a missing key, and every one of
\* these objects has the unknown-key policy it has in s.
DeepPartialOptionalEverywhere ==
  \A call \in Calls :
    built[call].op = "deepPartial" /\ WellFormed(built[call].receiver) =>
      /\ built[call].result # Threw
      /\ \A a \in AbortOptions :
           safeParse(Node(built[call].result), Obj(<<>>), Options(a)).kind = "success"
      /\ OptionalAtEveryDepth(Node(built[call].result))
      /\ PoliciesKept(Node(built[call].receiver), Node(built[call].result))

\* deepPartial() was called on an object holding an object that holds an
\* array of objects, and the result accepts an empty item
DeepPartialReachedArrayItems ==
  \E call \in Returned("deepPartial") :
    /\ Node(built[call].receiver) = ObjectSchema(<<Field("a", sNested), Field("x", sNum)>>, "strict")
    /\ Node(built[call].result).shape[1][2].inner.shape[2][2].inner.item.shape[1][2].kind = "optional"
    /\ safeParse(Node(built[call].result),
                 Obj(<<<<"a", Obj(<<<<"y", Arr(<<Obj(<<>>)>>)>>>>)>>>>),
                 Options("unset")).kind = "success"

\* plain objects with or without each of the keys a, b, x
ProbeInputs ==
  { Obj(Prop("a", va) \o Prop("b", vb) \o Prop("x", vx)) :
      va \in {Str("bb"), Obj(<<>>), Absent}, vb \in {Num(1), Str("bb"), Absent},
      vx \in {Num(1), Absent} }

Listed(keys, key) == \E i \in 1..Len(keys) : keys[i] = key
Declared(h) == {ShapeOf(h)[i][1] : i \in 1..Len(ShapeOf(h))}
FieldOf(h, key) == GetProp(ShapeOf(h), key)
IssueAt(result, key) ==
  \E i \in 1..Len(result.issues) : result.issues[i].path = <<Key(key)>>
Parsed(h, x) == safeParse(Node(h), x, Options("unset"))

\* partial() wraps every declared field of the receiver in one optional decorator
PartialWrapsOnce ==
  \A call \in Calls :
    built[call].op = "partial" /\ WellFormed(built[call].receiver) =>
      /\ built[call].result # Threw
      /\ nodes[built[call].result].policy = nodes[built[call].receiver].policy
      /\ ObjectKeys(ShapeOf(built[call].result)) = ObjectKeys(ShapeOf(built[call].receiver))
      /\ \A key \in Declared(built[call].receiver) :
           FieldOf(built[call].result, key) = OptionalSchema(FieldOf(built[call].receiver, key))

\* required(keys) takes one optional decorator off each listed field that
\* has one, and leaves every other field as it is
RequiredUnwrapsOnce ==
  \A call \in Returned("required") :
    /\ ObjectKeys(ShapeOf(built[call].result)) = ObjectKeys(ShapeOf(built[call].receiver))
    /\ nodes[built[call].result].policy = nodes[built[call].receiver].policy
    /\ \A key \in Declared(built[call].receiver) :
         FieldOf(built[call].result, key) =
           IF /\ built[call].args = NoKeys \/ Listed(built[call].args, key)
              /\ FieldOf(built[call].receiver, key).kind = "optional"
             THEN FieldOf(built[call].receiver, key).inner
             ELSE FieldOf(built[call].receiver, key)

\* the calls s.partial().required(keys), as <<partial call, required call>>
PartialThenRequired ==
  { q \in Returned("partial") \X Returned("required") :
      built[q[2]].receiver = built[q[1]].result /\ WellFormed(built[q[1]].receiver) }
Receiver(c) == built[c[1]].receiver
Keys(c) == built[c[2]].args
Result(c) == built[c[2]].result

\* s.partial().required() has the shape of s
PartialRequiredIsIdentity ==
  \A c \in PartialThenRequired : Keys(c) = NoKeys => ShapeOf(Result(c)) = ShapeOf(Receiver(c))

\* in s.partial().required(K) a key outside K may be left out
OmissionOutsideKeysAccepted ==
  \A c \in PartialThenRequired, x \in ProbeInputs :
    Keys(c) # NoKeys =>
      \A key \in Declared(Receiver(c)) :
        ~Listed(Keys(c), key) /\ ~hasOwn(x.props, key) => ~IssueAt(Parsed(Result(c), x), key)

\* C14 as stated: partial() wraps each field once, required(keys) unwraps
\* each listed optional field once, s.partial().required() has the fields
\* of s, and s.partial().required(K) rejects every input that lacks a key
\* of K and accepts the omission of a key outside K.
RequiredRejectsMissingListedKey ==
  /\ PartialWrapsOnce /\ RequiredUnwrapsOnce /\ PartialRequiredIsIdentity
  /\ OmissionOutsideKeysAccepted
  /\ \A c \in PartialThenRequired, x \in ProbeInputs :
       Keys(c) # NoKeys =>
         \A key \in Declared(Receiver(c)) :
           Listed(Keys(c), key) /\ ~hasOwn(x.props, key) => Parsed(Result(c), x).kind = "failure"

\* C14: partial() wraps each field once, required(keys) unwraps each listed
\* optional field once, s.partial().required() has the fields of s, and
\* s.partial().required(K) treats a missing key of K as s does (it rejects the
\* input when the field of s rejects a missing key, and reports nothing
\* under the key when the field of s accepts one) and accepts the omission
\* of a key outside K.
RequiredRestoresFieldOfReceiver ==
  /\ PartialWrapsOnce /\ RequiredUnwrapsOnce /\ PartialRequiredIsIdentity
  /\ OmissionOutsideKeysAccepted
  /\ \A c \in PartialThenRequired, x \in ProbeInputs :
       Keys(c) # NoKeys =>
         \A key \in Declared(Receiver(c)) :
           Listed(Keys(c), key) /\ ~hasOwn(x.props, key) =>
             IF AcceptsMissing(FieldOf(Receiver(c), key))
               THEN ~IssueAt(Parsed(Result(c), x), key)
               ELSE Parsed(Result(c), x).kind = "failure" /\ IssueAt(Parsed(Result(c), x), key)

\* s.partial().required(["a"]) was built; it rejects {} and accepts an
\* input that has a and leaves out b
PartialRequiredByKey ==
  \E c \in PartialThenRequired :
    /\ Keys(c) = <<"a">> /\ Declared(Receiver(c)) = {"a", "b"}
    /\ Parsed(Result(c), Obj(<<>>)).kind = "failure"
    /\ Parsed(Result(c), Obj(<<<<"a", Str("bb")>>>>)).kind = "success"

KeySet(keys) == {keys[i] : i \in 1..Len(keys)}
ShapeKeys(shape) == KeySet(ObjectKeys(shape))
SamePolicy(call) == nodes[built[call].result].policy = nodes[built[call].receiver].policy

\* the result has exactly the keys `keys`, each with the receiver's node
Retains(call, keys) ==
  /\ Declared(built[call].result) = keys
  /\ \A key \in keys : FieldOf(built[call].result, key) = FieldOf(built[call].receiver, key)

\* the result has the receiver's keys and the argument's, the argument's
\* node under each of its keys and the receiver's node under the others
Overlays(call, shape) ==
  /\ Declared(built[call].result) = Declared(built[call].receiver) \cup ShapeKeys(shape)
  /\ \A key \in Declared(built[call].result) :
       FieldOf(built[call].result, key) =
         IF hasOwn(shape, key) THEN GetProp(shape, key) ELSE FieldOf(built[call].receiver, key)

OmitKeepsTheRest ==
  \A call \in Returned("omit") :
    SamePolicy(call) /\ Retains(call, Declared(built[call].receiver) \ KeySet(built[call].args))
ExtendOverlays ==
  \A call \in Returned("extend") : SamePolicy(call) /\ Overlays(call, built[call].args)
MergeOverlays ==
  \A call \in Returned("merge") : SamePolicy(call) /\ Overlays(call, ShapeOf(built[call].args))

\* C15: pick(K) has exactly the keys of K that the receiver declares,
\* omit(K) exactly the declared keys outside K, extend(n) and merge(o) the
\* keys of both with the argument's node winning; every retained key has
\* the node it had, and the result has the receiver's unknown-key policy.
ShapeOperationsKeySets ==
  /\ \A call \in Returned("pick") :
       SamePolicy(call) /\ Retains(call, KeySet(built[call].args) \cap Declared(built[call].receiver))
  /\ OmitKeepsTheRest /\ ExtendOverlays /\ MergeOverlays

\* two inputs for a schema of each class: one it may accept, one short of it
FrameInputs(s) ==
  CASE s.kind = "object" ->
         {Obj(<<>>), Obj(<<<<"a", Str("bb")>>, <<"b", Num(1)>>, <<"x", Num(1)>>>>)}
    [] s.kind = "string" -> {Str("a"), Str("user")}
    [] s.kind = "array" -> {Arr(<<>>), Arr(<<Item(0), Item(0)>>)}
    [] OTHER -> {Undef, Str("user")}

\* the object under handle h is the same object with the same contents in
\* both states, and parses every input to the same result
SameSchema(before, after) ==
  /\ after = before
  /\ \A x \in FrameInputs(before) :
       safeParse(after, x, Options("unset")) = safeParse(before, x, Options("unset"))

SameNode(h) ==
  nodes'[h] = nodes[h] /\ SameSchema(Resolve(nodes, store, h), Resolve(nodes', store', h))

\* a call that returned handed back an object that did not exist before
ReturnedNew ==
  built'[Len(built')].result # Threw =>
    /\ built'[Len(built')].result \notin Handles
    /\ built'[Len(built')].result \in 1..Len(nodes')

\* C18: every builder call returns a new node and leaves every existing
\* node (the receiver, and the nodes it was derived from or that were
\* derived from it) with its rule list, shape, policy and children, so
\* that each of them parses every input as it did before the call.
BuildersLeaveReceiver ==
  [][ /\ built' # built => Len(built') = Len(built) + 1 /\ ReturnedNew
      /\ \A h \in Handles : SameNode(h) ]_vars

\* strict() then omit(["a"]) on its result: the two nodes share one shape
\* object, the third has its own without a, and both still declare a
OmitAfterSharedShape ==
  /\ Len(built) = 2
  /\ built[1].op = "strict" /\ built[2].op = "omit" /\ built[2].receiver = built[1].result
  /\ nodes[1].shape = nodes[2].shape /\ nodes[3].shape # nodes[2].shape
  /\ "a" \in Declared(1) /\ "a" \in Declared(2) /\ "a" \notin Declared(3)
  /\ Parsed(1, Obj(<<>>)) # Parsed(3, Obj(<<>>))

(***************************************************************************)
(* Issue lookups by path (ValdixError.find / findAll / contains and the    *)
(* functions findIssue / findIssues / containsIssue).  Here a string is    *)
(* the sequence of its characters, so that joining with "." and splitting  *)
(* at "." are computed; a path segment is Key(characters) or Idx(number).  *)
(***************************************************************************)
MaxIssues == 2     \* issues in one error

DigitChars == <<"0", "1", "2", "3", "4", "5", "6", "7", "8", "9">>
DigitValue(char) == (CHOOSE d \in 1..10 : DigitChars[d] = char) - 1

\* String(n) for a non-negative integer
RECURSIVE StringOfNumber(_)
StringOfNumber(n) ==
  IF n < 10 THEN <<DigitChars[n + 1]>>
  ELSE StringOfNumber(n \div 10) \o <<DigitChars[(n % 10) + 1]>>

\* Number(str) for a string of digits
RECURSIVE NumberOfDigits(_, _, _)
NumberOfDigits(str, i, value) ==
  IF i > Len(str) THEN value ELSE NumberOfDigits(str, i + 1, value * 10 + DigitValue(str[i]))

\* String(segment)
StringOfSegment(segment) ==
  IF segment.k = "idx" THEN StringOfNumber(segment.i) ELSE segment.s

\* parts.join(".")
RECURSIVE Join(_, _)
Join(parts, i) ==
  IF i > Len(parts) THEN <<>>
  ELSE IF i = Len(parts) THEN parts[i]
  ELSE parts[i] \o <<".">> \o Join(parts, i + 1)

\* str.split(".")
RECURSIVE Split(_, _, _, _)
Split(str, i, part, parts) ==
  IF i > Len(str) THEN Append(parts, part)
  ELSE IF str[i] = "." THEN Split(str, i + 1, <<>>, Append(parts, part))
  ELSE Split(str, i + 1, Append(part, str[i]), parts)

\* DIGIT_SEGMENT = /^\d+$/
DIGIT_SEGMENT(str) ==
  Len(str) > 0 /\ \A i \in 1..Len(str) : \E d \in 1..10 : DigitChars[d] = str[i]

pathToString(path) ==
  IF Len(path) = 0 THEN <<>> ELSE Join([i \in 1..Len(path) |-> StringOfSegment(path[i])], 1)

\* PathInput: a string, or an array of segments
PathString(str) == [isArray |-> FALSE, str |-> str]
PathArray(segments) == [isArray |-> TRUE, segments |-> segments]

SegmentOfPart(part) ==
  IF DIGIT_SEGMENT(part) THEN Idx(NumberOfDigits(part, 1, 0)) ELSE Key(part)

normalizeParts(parts) == [i \in 1..Len(parts) |-> SegmentOfPart(parts[i])]

normalizePath(path) ==
  IF path.isArray THEN path.segments
  ELSE IF Len(path.str) = 0 THEN <<>>
  ELSE normalizeParts(SelectSeq(Split(path.str, 1, <<>>, <<>>), LAMBDA part : Len(part) > 0))

pathInputToString(path) == pathToString(normalizePath(path))

\* for (const issue of issues): the Map from path string to bucket, as
\* <<key, bucket>> pairs in insertion order
RECURSIVE buildIssueIndex(_, _, _)
buildIssueIndex(list, i, index) ==
  IF i > Len(list) THEN index
  ELSE buildIssueIndex(list, i + 1,
         SetProp(index, pathToString(list[i].path),
                 IF hasOwn(index, pathToString(list[i].path))
                   THEN Append(GetProp(index, pathToString(list[i].path)), list[i])
                   ELSE <<list[i]>>))

ValdixError(list) == [issues |-> list, issueIndex |-> buildIssueIndex(list, 1, <<>>)]

\* this.issueIndex.get(pathKey)?.[0]
find(err, path) ==
  IF hasOwn(err.issueIndex, pathInputToString(path))
    THEN GetProp(err.issueIndex, pathInputToString(path))[1]
    ELSE Undef

findAll(err, path) ==
  IF hasOwn(err.issueIndex, pathInputToString(path))
    THEN GetProp(err.issueIndex, pathInputToString(path))
    ELSE <<>>

contains(err, path) == hasOwn(err.issueIndex, pathInputToString(path))

findIssues(list, path) ==
  SelectSeq(list, LAMBDA issue : pathToString(issue.path) = pathInputToString(path))

findIssue(list, path) ==
  IF findIssues(list, path) = <<>> THEN Undef ELSE findIssues(list, path)[1]

containsIssue(list, path) ==
  \E i \in 1..Len(list) : pathToString(list[i].path) = pathInputToString(path)

\* the paths of the explored issues and queries: keys with a dot, with
\* digits, the empty key, and indexes
ErrorPaths ==
  { <<>>, <<Key(<<"a">>)>>, <<Key(<<"a">>), Key(<<"a">>)>>, <<Key(<<"a", ".", "a">>)>>,
    <<Idx(0)>>, <<Key(<<"0">>)>>, <<Key(<<"a">>), Idx(0)>>, <<Key(<<"a">>), Key(<<>>)>>,
    <<Key(<<"0", "1">>)>>, <<Idx(1)>>, <<Idx(10)>>, <<Key(<<"b">>), Idx(1)>> }

\* an issue of the explored errors; its code tells the issues of a list apart
ErrorIssue(path, n) ==
  [code |-> "custom", info |-> [n |-> n], path |-> path, message |-> <<"id", "custom">>]

IssueLists ==
  {[i \in 1..Len(q) |-> ErrorIssue(q[i], i)] : q \in SeqsUpTo(ErrorPaths, MaxIssues)}

\* a query: the path a caller passes, and the segment list it stands for
Query(path, segments) == [path |-> path, segments |-> segments]
Queries ==
  {Query(PathArray(q), q) : q \in ErrorPaths}
    \cup {Query(PathString(pathToString(q)), q) : q \in ErrorPaths}

Looked(op, query, result) == [op |-> op, query |-> query, result |-> result]

ErrorInit ==
  /\ NoParse /\ NoBuilder /\ NoRegex /\ NoTasks /\ NoContexts /\ NoAsync
  /\ \E list \in IssueLists : error = ValdixError(list)
  /\ lookup = NoCall

notError == <<parseVars, builderVars, regexVars, taskVars, contextVars, asyncVars>>

Find(query) ==
  /\ lookup = NoCall
  /\ lookup' = Looked("find", query, find(error, query.path))
  /\ UNCHANGED <<error, notError>>

FindAll(query) ==
  /\ lookup = NoCall
  /\ lookup' = Looked("findAll", query, findAll(error, query.path))
  /\ UNCHANGED <<error, notError>>

Contains(query) ==
  /\ lookup = NoCall
  /\ lookup' = Looked("contains", query, contains(error, query.path))
  /\ UNCHANGED <<error, notError>>

FindIssue(query) ==
  /\ lookup = NoCall
  /\ lookup' = Looked("findIssue", query, findIssue(error.issues, query.path))
  /\ UNCHANGED <<error, notError>>

FindIssues(query) ==
  /\ lookup = NoCall
  /\ lookup' = Looked("findIssues", query, findIssues(error.issues, query.path))
  /\ UNCHANGED <<error, notError>>

ContainsIssue(query) ==
  /\ lookup = NoCall
  /\ lookup' = Looked("containsIssue", query, containsIssue(error.issues, query.path))
  /\ UNCHANGED <<error, notError>>

ErrorNext ==
  \/ \E query \in Queries : Find(query)
  \/ \E query \in Queries : FindAll(query)
  \/ \E query \in Queries : Contains(query)
  \/ \E query \in Queries : FindIssue(query)
  \/ \E query \in Queries : FindIssues(query)
  \/ \E query \in Queries : ContainsIssue(query)

ErrorSpec == ErrorInit /\ [][ErrorNext]_vars

\* the issues whose path is, segment for segment, the queried one
AtPath(segments) == SelectSeq(error.issues, LAMBDA issue : issue.path = segments)

\* the methods of the error give what the functions give on error.issues
MethodsMirrorFunctions ==
  lookup # NoCall =>
    /\ find(error, lookup.query.path) = findIssue(error.issues, lookup.query.path)
    /\ findAll(error, lookup.query.path) = findIssues(error.issues, lookup.query.path)
    /\ contains(error, lookup.query.path) = containsIssue(error.issues, lookup.query.path)

\* C20: find / findAll / contains give what findIssue / findIssues /
\* containsIssue give on error.issues: the first issue, all the issues, and
\* whether there is an issue whose path is segment for segment the queried
\* one; a dot-joined string and the segment list it stands for select the
\* same issues.
LookupSelectsEqualPaths ==
  /\ MethodsMirrorFunctions
  /\ lookup # NoCall =>
       CASE lookup.op \in {"find", "findIssue"} ->
              lookup.result = IF AtPath(lookup.query.segments) = <<>> THEN Undef
                              ELSE AtPath(lookup.query.segments)[1]
         [] lookup.op \in {"findAll", "findIssues"} ->
              lookup.result = AtPath(lookup.query.segments)
         [] OTHER -> lookup.result = (AtPath(lookup.query.segments) # <<>>)

(***************************************************************************)
(* A string schema whose regex rule holds a RegExp object with flags.  The *)
(* object keeps lastIndex between the calls that use it.                   *)
(***************************************************************************)
MaxRuns == 3       \* parse calls on the schema

RegExp(source, flags, lastIndex) == [source |-> source, flags |-> flags, lastIndex |-> lastIndex]

\* the matches of a pattern in a string, as <<start, end>>
Matches(source, str) ==
  CASE source = "^[a-z]+$" -> {<<0, Len(str)>>}
    [] source = "^u" -> IF str = "user" THEN {<<0, 1>>} ELSE {}
    [] source = "b" ->
         IF str = "bb" THEN {<<0, 1>>, <<1, 2>>}
         ELSE IF str = "abb" THEN {<<1, 2>>, <<2, 3>>}
         ELSE {}
    [] OTHER -> {}

\* the matches RegExp.prototype.test may take: from lastIndex on with the g
\* flag, at lastIndex with the y flag
Candidates(re, str) ==
  {m \in Matches(re.source, str) :
     IF "y" \in re.flags THEN m[1] = re.lastIndex ELSE m[1] >= re.lastIndex}

Leftmost(matches) == CHOOSE m \in matches : \A other \in matches : m[1] <= other[1]

\* expression.test(str): the answer, and the object's lastIndex afterwards
RegExpTest(re, str) ==
  IF re.flags \cap {"g", "y"} = {}
    THEN [matched |-> Matches(re.source, str) # {}, lastIndex |-> re.lastIndex]
  ELSE IF re.lastIndex > Len(str) \/ Candidates(re, str) = {}
    THEN [matched |-> FALSE, lastIndex |-> 0]
  ELSE [matched |-> TRUE, lastIndex |-> Leftmost(Candidates(re, str))[2]]

\* expression.test(input) on the stored object itself
regexTestStored(expression, str) == RegExpTest(expression, str)

\* regexTest(expression, input): the answer, and the stored object's
\* lastIndex afterwards
regexTestFlags(expression, str) ==
  IF expression.flags \cap {"g", "y"} # {}
    THEN [matched |-> RegExpTest(RegExp(expression.source, expression.flags \ {"g", "y"}, 0),
                                 str).matched,
          lastIndex |-> expression.lastIndex]
    ELSE RegExpTest(expression, str)

\* StringSchema._parse of v.string().regex(expression); tested: what
\* regexTest answered
StringRegexTested(expression, x, ctx, tested) ==
  RulesResult(x, RunRules(<<IF tested.matched THEN NoViolation
                            ELSE IssueInput("invalid_string",
                                   [validation |-> "pattern", pattern |-> expression.source])>>,
                          1, ctx))

StringRegex_parse(expression, x, ctx) ==
  IF typeOf(x) # "string"
    THEN invalid(addIssue(ctx, IssueInput("invalid_type",
                   [expected |-> "string", received |-> getValueType(x)])))
    ELSE StringRegexTested(expression, x, ctx, regexTestFlags(expression, x.s))

\* the stored object after the call
StringRegexAfter(expression, x) ==
  IF typeOf(x) # "string" THEN expression
  ELSE [expression EXCEPT !.lastIndex = regexTestFlags(expression, x.s).lastIndex]

RegexSources == {"^[a-z]+$", "^u", "b"}
RegexFlags == {{}, {"g"}, {"y"}, {"g", "i"}}
RegexInputs == {Str("a"), Str("bb"), Str("user"), Str("abb"), Num(1)}

\* a RegExp as the caller hands it to regex(): it may have been used before
RegExps == {RegExp(source, flags, lastIndex) :
              source \in RegexSources, flags \in RegexFlags, lastIndex \in 0..1}

RegexParsed(expression, x) ==
  safeParseResult(StringRegex_parse(expression, x, createParseContext(Options("unset"))))

\* `alone`: the object as it was handed over, and what each input gives when
\* it is the first input parsed
RegexInit ==
  /\ NoParse /\ NoBuilder /\ NoError /\ NoTasks /\ NoContexts /\ NoAsync
  /\ regex \in RegExps
  /\ runs = <<>>
  /\ alone = [regex |-> regex, results |-> [x \in RegexInputs |-> RegexParsed(regex, x)]]

\* schema.safeParse(x)
RegexParse(x) ==
  /\ Len(runs) < MaxRuns
  /\ runs' = Append(runs, [input |-> x, result |-> RegexParsed(regex, x)])
  /\ regex' = StringRegexAfter(regex, x)
  /\ UNCHANGED <<alone, parseVars, builderVars, errorVars, taskVars, contextVars, asyncVars>>

RegexNext == \E x \in RegexInputs : RegexParse(x)

RegexSpec == RegexInit /\ [][RegexNext]_vars

\* C16: with a RegExp that has the g or the y flag, every parse call gives
\* for its input the result that input gives as the first call, whatever
\* was parsed before, and the stored RegExp keeps its lastIndex.
RegexParseDeterministic ==
  regex.flags \cap {"g", "y"} # {} =>
    /\ \A i \in 1..Len(runs) : runs[i].result = alone.results[runs[i].input]
    /\ regex = alone.regex

\* /^[a-z]+$/g accepted "user" and then "bb", which a test resuming at
\* lastIndex 4 would refuse
RegexAcceptedAfterLongerInput ==
  /\ regex = RegExp("^[a-z]+$", {"g"}, 0)
  /\ Len(runs) = 2
  /\ runs[1].input = Str("user") /\ runs[1].result.kind = "success"
  /\ runs[2].input = Str("bb") /\ runs[2].result.kind = "success"

(***************************************************************************)
(* Calls in progress on one schema object.  safeParse and parse run to     *)
(* their end in one step.  safeParseAsync and parseAsync run up to their   *)
(* next await in one step; between two steps of a call the steps of other  *)
(* calls may run.  `contexts` is the heap of the ParseContext objects (a   *)
(* call holds a handle); `tasks` is the list of the calls made so far.     *)
(***************************************************************************)
MaxTasks == 2      \* calls on the schema

Methods == {"safeParse", "parse", "safeParseAsync", "parseAsync"}

\* an InternalResult as a promise holds it: the context is not part of it
Settled(r) == [ok |-> r.ok, thrown |-> r.thrown, value |-> r.value]
NoResult == [ok |-> FALSE, thrown |-> FALSE, value |-> Undef]
\* the result together with the context as it is now
WithContext(parsed, ctx) ==
  [ok |-> parsed.ok, thrown |-> parsed.thrown, value |-> parsed.value, ctx |-> ctx]

\* pc: "inner" (a refinement awaits its inner schema), "item" (an array
\* awaits the item at index), "itemInner" (the item is a refinement that
\* awaits its inner schema), "settled" (safeParseAsync awaits the result of
\* _parseAsync), "done"
Task(method, x, abortEarly) ==
  [method |-> method, input |-> x, abortEarly |-> abortEarly, ctx |-> 0, pc |-> "new",
   steps |-> 0, index |-> 0, output |-> <<>>, hasError |-> FALSE, parsed |-> NoResult,
   result |-> NoCall]

\* a call and its context
Running(task, ctx) == [task |-> task, ctx |-> ctx]

\* _parseAsync returned r
Settle(task, r) == Running([task EXCEPT !.pc = "settled", !.parsed = Settled(r)], r.ctx)

\* await this.inner._parseAsync(input, ctx) of a refinement whose inner
\* schema has the _parseAsync of BaseSchema: r is what inner._parse returned
AwaitInner(task, pc, r) == Running([task EXCEPT !.pc = pc, !.parsed = Settled(r)], r.ctx)

\* ctx.path.push(index); await this.item._parseAsync(input[index], ctx)
AwaitItem(s, task, ctx, index, output, hasError) ==
  AwaitInner([task EXCEPT !.index = index, !.output = output, !.hasError = hasError],
             IF s.item.kind = "refine" THEN "itemInner" ELSE "item",
             _parse(IF s.item.kind = "refine" THEN s.item.inner ELSE s.item,
                    task.input.items[index], pathPush(ctx, Idx(index - 1))))

\* the items loop of ArraySchema._parseAsync from `index` on, up to its next await
ArrayLoop(s, task, ctx, index, output, hasError) ==
  IF index > Len(task.input.items)
    THEN Settle(task, ArraySchemaItems(s, LoopState("none", ctx, output, hasError)))
    ELSE AwaitItem(s, task, ctx, index, output, hasError)

ArrayAsyncRules(s, task, run) ==
  IF run.aborted THEN Settle(task, invalid(run.ctx))
  ELSE ArrayLoop(s, task, run.ctx, 1, <<>>, FALSE)

\* schema._parseAsync(input, ctx) up to its first await
BeginAsync(s, task, ctx) ==
  CASE s.kind = "refine" -> AwaitInner(task, "inner", _parse(s.inner, task.input, ctx))
    [] s.kind = "array" ->
         IF task.input.t # "array"
           THEN Settle(task, invalid(addIssue(ctx, IssueInput("invalid_type",
                               [expected |-> "array", received |-> typeOf(task.input)]))))
           ELSE ArrayAsyncRules(s, task,
                  RunRules([i \in 1..Len(s.rules) |->
                              ArrayRuleIssue(s.rules[i], Len(task.input.items))], 1, ctx))
    [] OTHER -> Settle(task, _parse(s, task.input, ctx))

\* the call returned or threw
Finish(task, result, ctx) ==
  Running([task EXCEPT !.pc = "done",
                       !.result = IF task.method \in {"parse", "parseAsync"}
                                    THEN parseResult(safeParseResult(result))
                                    ELSE safeParseResult(result)],
          ctx)

\* the item's promise was fulfilled with `parsed`
ItemAwaited(s, task, parsed) ==
  IF parsed.thrown THEN Settle(task, parsed)
  ELSE IF parsed.ok
    THEN ArrayLoop(s, task, pathPop(parsed.ctx), task.index + 1,
                   Append(task.output, parsed.value), task.hasError)
  ELSE IF parsed.ctx.abortEarly THEN Settle(task, invalid(pathPop(parsed.ctx)))
  ELSE ArrayLoop(s, task, pathPop(parsed.ctx), task.index + 1,
                 Append(task.output, Undef), TRUE)

\* the first step of a call: it has its context
Begin(s, task, ctx) ==
  IF task.method \in {"safeParse", "parse"}
    THEN Finish(task, _parse(s, task.input, ctx), _parse(s, task.input, ctx).ctx)
    ELSE BeginAsync(s, task, ctx)

\* the step of an async call after the promise it awaits was fulfilled
Continue(s, task, ctx) ==
  CASE task.pc = "inner" ->
         Settle(task, RefinementSchemaParsed(s, WithContext(task.parsed, ctx)))
    [] task.pc = "itemInner" ->
         AwaitInner(task, "item", RefinementSchemaParsed(s.item, WithContext(task.parsed, ctx)))
    [] task.pc = "item" -> ItemAwaited(s, task, WithContext(task.parsed, ctx))
    [] task.pc = "settled" -> Finish(task, WithContext(task.parsed, ctx), ctx)

Counted(running) == [running EXCEPT !.task.steps = @ + 1]

\* createParseContext(options): a context object of its own, with a path
\* array and an issue array of its own
allocContextShared(heap, ctx) == IF heap = <<>> THEN <<ctx>> ELSE heap

allocContext(heap, ctx) == Append(heap, ctx)

TaskSchemas ==
  { sMin2,
    RefinementSchema(sMin2, "chkThrow", NoMessage),
    RefinementSchema(sStr, "chkThrow", <<"no">>),
    RefinementSchema(sStr, "chkFalse", NoMessage),
    ArraySchema(sMin2, <<RuleMin(1)>>, NoSelector),
    ArraySchema(RefinementSchema(sStr, "chkThrow", NoMessage), <<>>, NoSelector) }

TaskInputs(s) ==
  IF s.kind = "array"
    THEN {Arr(<<Str("a"), Str("bb")>>), Arr(<<>>)}
    ELSE {Str("user"), Num(1)}

TaskInit ==
  /\ schema \in TaskSchemas
  /\ input = NoCall /\ ctx0 = NoContext /\ nodeRes = NoCall
  /\ safeRes = [a \in AbortOptions |-> NoCall]
  /\ parseRes = [a \in AbortOptions |-> NoCall]
  /\ NoBuilder /\ NoRegex /\ NoError /\ NoContexts /\ NoAsync
  /\ tasks = <<>>
  /\ contexts = <<>>

notTasks == <<parseVars, builderVars, regexVars, errorVars, contextVars, asyncVars>>

\* the call's step ended in `running`; h is the handle of its context
Stepped(t, h, heap, running) ==
  /\ tasks' = [i \in 1..(IF t > Len(tasks) THEN t ELSE Len(tasks)) |->
                 IF i = t THEN [running.task EXCEPT !.ctx = h] ELSE tasks[i]]
  /\ contexts' = [heap EXCEPT ![h] = running.ctx]

\* a caller calls schema[method](x, {abortEarly})
Call(method, x, abortEarly) ==
  /\ Len(tasks) < MaxTasks
  /\ Stepped(Len(tasks) + 1,
             Len(allocContext(contexts, createParseContext(Options(abortEarly)))),
             allocContext(contexts, createParseContext(Options(abortEarly))),
             Begin(schema, Task(method, x, abortEarly),
                   allocContext(contexts, createParseContext(Options(abortEarly)))
                     [Len(allocContext(contexts, createParseContext(Options(abortEarly))))]))
  /\ UNCHANGED notTasks

\* the event loop resumes call t
Resume(t) ==
  /\ tasks[t].pc # "done"
  /\ Stepped(t, tasks[t].ctx, contexts,
             Counted(Continue(schema, tasks[t], contexts[tasks[t].ctx])))
  /\ UNCHANGED notTasks

TaskNext ==
  \/ \E method \in Methods, x \in TaskInputs(schema), abortEarly \in AbortOptions :
       Call(method, x, abortEarly)
  \/ \E t \in 1..Len(tasks) : Resume(t)

TaskSpec == TaskInit /\ [][TaskNext]_vars

Started == 1..Len(tasks)
Done(t) == tasks[t].pc = "done"

\* the call and its context after n resumptions with no other call around
RECURSIVE AloneAfter(_, _, _)
AloneAfter(s, running, n) ==
  IF n = 0 THEN running
  ELSE AloneAfter(s, Counted(Continue(s, running.task, running.ctx)), n - 1)

Alone(t) ==
  AloneAfter(schema,
             Begin(schema, Task(tasks[t].method, tasks[t].input, tasks[t].abortEarly),
                   createParseContext(Options(tasks[t].abortEarly))),
             tasks[t].steps)

\* C19: however the steps of the calls on one schema object interleave, each
\* call is at every step where it would be if it ran alone: its result, its
\* pending values and its context (issues and path) are those of the call run
\* alone, and no two calls hold the same context
CallsIsolated ==
  \A t \in Started :
    /\ [tasks[t] EXCEPT !.ctx = 0] = Alone(t).task
    /\ contexts[tasks[t].ctx] = Alone(t).ctx
    /\ \A u \in Started \ {t} : tasks[u].ctx # tasks[t].ctx

\* two async calls are between two of their steps, at different items, and
\* an issue has been recorded
TwoCallsMidway ==
  \E t \in Started, u \in Started :
    /\ tasks[t].pc = "item" /\ tasks[u].pc = "item"
    /\ tasks[t].method = "safeParseAsync" /\ tasks[u].method = "safeParseAsync"
    /\ contexts[tasks[t].ctx].path # contexts[tasks[u].ctx].path
    /\ contexts[tasks[t].ctx].issues # <<>>

Accepts(s, x) == safeParse(s, x, Options("unset")).kind = "success"
CheckThrows(s) == s.kind = "refine" /\ s.check = "chkThrow"
ThrownIssue(s, path) ==
  [code |-> "custom", info |-> NoInfo, path |-> path,
   message |-> IF s.fallbackMessage # NoMessage THEN s.fallbackMessage
               ELSE <<"Refinement threw an error.">>]
IssuesAt(list, path) == SelectSeq(list, LAMBDA issue : issue.path = path)
Reached(t, index) == index = 1 \/ tasks[t].abortEarly = "unset"

\* C17: a call of parse, safeParse, parseAsync or safeParseAsync never ends
\* with the exception of a refine predicate; where the predicate throws on a
\* value its inner schema accepts, the call fails and its issues hold exactly
\* one issue at the path of the refinement: code 'custom', message the refine
\* message or 'Refinement threw an error.'
RefineThrowCaught ==
  \A t \in Started :
    Done(t) =>
      /\ tasks[t].result.kind # "exception"
      /\ CheckThrows(schema) /\ Accepts(schema.inner, tasks[t].input) =>
           /\ tasks[t].result.kind \in {"failure", "threw"}
           /\ tasks[t].result.issues = <<ThrownIssue(schema, <<>>)>>
      /\ schema.kind = "array" /\ CheckThrows(schema.item) /\ tasks[t].input.t = "array" =>
           \A index \in 1..Len(tasks[t].input.items) :
             Accepts(schema.item.inner, tasks[t].input.items[index]) /\ Reached(t, index) =>
               /\ tasks[t].result.kind \in {"failure", "threw"}
               /\ IssuesAt(tasks[t].result.issues, <<Idx(index - 1)>>)
                    = <<ThrownIssue(schema.item, <<Idx(index - 1)>>)>>

\* parseAsync of an array ended with the issues of two items whose predicate threw
ThrowingItemsReported ==
  \E t \in Started :
    /\ Done(t) /\ tasks[t].method = "parseAsync"
    /\ schema.kind = "array" /\ CheckThrows(schema.item)
    /\ tasks[t].result.kind = "threw"
    /\ Len(tasks[t].result.issues) = 2

(***************************************************************************)
(* Properties of the descent, on the calls of Spec.                        *)
(***************************************************************************)
NodeCalled == nodeRes # NoCall
\* the issues the node call appended to the context it was given
Added == SubSeq(nodeRes.res.ctx.issues, Len(ctx0.issues) + 1, Len(nodeRes.res.ctx.issues))
Brief(issue) == [code |-> issue.code, info |-> issue.info, path |-> issue.path]
Briefs(list) == [i \in 1..Len(list) |-> Brief(list[i])]

Ruled(s) == s.kind \in {"string", "number", "bigint", "date"}
\* the input passes the node's type check
RightType(s, x) ==
  CASE s.kind = "string" -> x.t = "string"
    [] s.kind = "number" -> x.t = "number"
    [] s.kind = "bigint" -> x.t = "bigint"
    [] s.kind = "date" -> x.t = "date" /\ x.valid
RuleIssue(s, rule, x) ==
  CASE s.kind = "string" -> StringRuleIssue(rule, x.s)
    [] s.kind = "number" -> NumberRuleIssue(rule, x.n)
    [] s.kind = "bigint" -> BigIntRuleIssue(rule, x.n)
    [] s.kind = "date" -> DateRuleIssue(rule, x.time)
\* the issue of each violated rule at a path, in rule declaration order
Violations(s, x, path) ==
  Briefs(SelectSeq([i \in 1..Len(s.rules) |->
                      [RuleIssue(s, s.rules[i], x) EXCEPT !.path = path]],
                   LAMBDA issue : issue.code # "none"))

\* C24: a string, number, bigint or date node given an input of its type
\* appends, with abortEarly=false, one issue per violated rule in rule
\* declaration order and nothing else; with abortEarly=true it appends the
\* issue of the first violated rule only and returns failure
RulesCollected ==
  (NodeCalled /\ Ruled(schema) /\ RightType(schema, input)) =>
    /\ IsPrefix(ctx0.issues, nodeRes.res.ctx.issues)
    /\ ~ctx0.abortEarly => Briefs(Added) = Violations(schema, input, ctx0.path)
    /\ (ctx0.abortEarly /\ Violations(schema, input, ctx0.path) = <<>>) =>
         Added = <<>> /\ nodeRes.res.ok
    /\ (ctx0.abortEarly /\ Violations(schema, input, ctx0.path) # <<>>) =>
         /\ Briefs(Added) = <<Violations(schema, input, ctx0.path)[1]>>
         /\ ~nodeRes.res.ok /\ ~nodeRes.res.thrown

\* a bigint node has recorded the issues of two violated rules in one pass
TwoRulesViolated ==
  /\ NodeCalled /\ schema.kind = "bigint" /\ RightType(schema, input)
  /\ ~ctx0.abortEarly
  /\ Len(Added) = 2

\* C27: when a node's _parse returns (success or failure, either abortEarly
\* setting), the context's path is the path the node was entered with; a
\* descent entered with the empty path ends with the empty path
PathRestored ==
  (NodeCalled /\ ~nodeRes.res.thrown) => nodeRes.res.ctx.path = ctx0.path

\* a composite node entered below a path has failed under abortEarly=true on
\* an issue of one of its children
ChildFailedBelowPath ==
  /\ NodeCalled /\ ~nodeRes.res.thrown /\ ~nodeRes.res.ok
  /\ schema.kind \in {"object", "array", "tuple"}
  /\ ctx0.abortEarly /\ ctx0.path # <<>>
  /\ Len(Added) = 1
  /\ Len(Added[1].path) > Len(ctx0.path)

\* the same for _parseAsync: a call that has settled without an exception
\* holds a context with the empty path
AsyncPathRestored ==
  \A t \in Started :
    (tasks[t].pc = "settled" /\ ~tasks[t].parsed.thrown) => contexts[tasks[t].ctx].path = <<>>

(***************************************************************************)
(* Context objects.  A ParseContext holds its settings and two arrays,     *)
(* path and issues; `arrays` is the heap of the arrays and a context       *)
(* object holds their handles, so that two contexts can hold the same      *)
(* array or arrays of their own.  `history` lists the operations made.     *)
(***************************************************************************)
MaxOps == 4        \* operations on the contexts

\* the context object h as the value the descent works on
ContextAt(os, as, h) ==
  createContext(ParseSettings(os[h].locale, os[h].abortEarly, os[h].parseErrorMap,
                              os[h].globalErrorMap),
                as[os[h].path], as[os[h].issues], <<>>)
Context(h) == ContextAt(objects, arrays, h)

\* the object of a context whose path and issues are new arrays
ContextObject(ctx, as) ==
  [locale |-> ctx.locale, abortEarly |-> ctx.abortEarly,
   parseErrorMap |-> ctx.parseErrorMap, globalErrorMap |-> ctx.globalErrorMap,
   path |-> Len(as) + 1, issues |-> Len(as) + 2]

Operation(op, h, child, arg, before) ==
  [op |-> op, ctx |-> h, child |-> child, arg |-> arg, before |-> before]

ContextOptions ==
  { [abortEarly |-> a, locale |-> l, errorMap |-> m] :
      a \in AbortOptions, l \in {"unset", "en"}, m \in {NoMap, "mapA"} }

ContextInit ==
  /\ \E options \in ContextOptions :
       objects = <<ContextObject(createParseContext(options), <<>>)>>
  /\ arrays = <<<<>>, <<>>>>
  /\ history = <<>>
  /\ NoParse /\ NoBuilder /\ NoRegex /\ NoError /\ NoTasks /\ NoAsync

notContexts == <<parseVars, builderVars, regexVars, errorVars, taskVars, asyncVars>>
MayOperate == Len(history) < MaxOps

\* the context's own arrays become what the operation left in `after`
Mutated(h, after) ==
  /\ arrays' = [arrays EXCEPT ![objects[h].path] = after.path,
                              ![objects[h].issues] = after.issues]
  /\ UNCHANGED objects

\* ctx.fork()
Fork(h) ==
  /\ MayOperate
  /\ objects' = Append(objects, ContextObject(fork(Context(h)), arrays))
  /\ arrays' = arrays \o <<fork(Context(h)).path, fork(Context(h)).issues>>
  /\ history' = Append(history, Operation("fork", h, Len(objects) + 1, NoCall, Context(h)))
  /\ UNCHANGED notContexts

\* ctx.path.push(segment)
Push(h, segment) ==
  /\ MayOperate
  /\ Mutated(h, pathPush(Context(h), segment))
  /\ history' = Append(history, Operation("push", h, h, segment, Context(h)))
  /\ UNCHANGED notContexts

\* ctx.path.pop()
Pop(h) ==
  /\ MayOperate
  /\ Context(h).path # <<>>
  /\ Mutated(h, pathPop(Context(h)))
  /\ history' = Append(history, Operation("pop", h, h, NoCall, Context(h)))
  /\ UNCHANGED notContexts

\* ctx.addIssue(issue)
AddIssue(h, issue) ==
  /\ MayOperate
  /\ Mutated(h, addIssue(Context(h), issue))
  /\ history' = Append(history, Operation("addIssue", h, h, issue, Context(h)))
  /\ UNCHANGED notContexts

ContextSegments == {Key("a"), Idx(0)}
ContextIssues == {IssueInput("invalid_date", NoInfo), IssueInputMsg("custom", NoInfo, "no")}

ContextNext ==
  \E h \in 1..Len(objects) :
    \/ Fork(h)
    \/ \E segment \in ContextSegments : Push(h, segment)
    \/ Pop(h)
    \/ \E issue \in ContextIssues : AddIssue(h, issue)

ContextSpec == ContextInit /\ [][ContextNext]_vars

Forks == {i \in 1..Len(history) : history[i].op = "fork"}
SameSettings(a, b) ==
  /\ a.locale = b.locale /\ a.abortEarly = b.abortEarly
  /\ a.parseErrorMap = b.parseErrorMap /\ a.globalErrorMap = b.globalErrorMap
\* no two contexts hold the same array
OwnArrays ==
  \A h \in 1..Len(objects), k \in 1..Len(objects) :
    /\ objects[h].path # objects[k].issues
    /\ h # k => objects[h].path # objects[k].path /\ objects[h].issues # objects[k].issues
\* the step is an operation on one context and leaves the path and the
\* issues of every other context as they were
OthersUntouched ==
  history' # history =>
    \A h \in 1..Len(objects) :
      h # history'[Len(history')].ctx =>
        /\ ContextAt(objects', arrays', h).path = Context(h).path
        /\ ContextAt(objects', arrays', h).issues = Context(h).issues
\* the step is a fork: the new context has the settings of its parent and
\* no issue, and its parent is as it was
ForkedFresh ==
  (history' # history /\ history'[Len(history')].op = "fork") =>
    /\ SameSettings(objects'[Len(objects')], objects[history'[Len(history')].ctx])
    /\ ContextAt(objects', arrays', Len(objects')).issues = <<>>
    /\ ContextAt(objects', arrays', history'[Len(history')].ctx)
         = Context(history'[Len(history')].ctx)

\* C25 as stated: fork() returns a context with the settings of its parent,
\* an empty path and an empty issue list, and no later push, pop or addIssue
\* on a context changes the path or the issues of another
ForkStartsEmpty ==
  [][ /\ ForkedFresh
      /\ (history' # history /\ history'[Len(history')].op = "fork") =>
           ContextAt(objects', arrays', Len(objects')).path = <<>>
      /\ OthersUntouched ]_vars

\* C25: fork() returns a context with the settings of its parent, a copy of
\* the path its parent has at that moment and an empty issue list; the two
\* arrays are its own: no later push, pop or addIssue on a context changes
\* the path or the issues of another
ForkCopiesPath ==
  [][ /\ ForkedFresh
      /\ (history' # history /\ history'[Len(history')].op = "fork") =>
           ContextAt(objects', arrays', Len(objects')).path
             = Context(history'[Len(history')].ctx).path
      /\ OthersUntouched
      /\ OwnArrays' ]_vars

\* a context forked below a path has recorded an issue at that path, and its
\* parent has recorded none and has left the path
ForkedBelowPath ==
  \E i \in Forks :
    /\ history[i].before.path # <<>>
    /\ Context(history[i].child).issues # <<>>
    /\ Context(history[i].child).issues[1].path = history[i].before.path
    /\ Context(history[i].ctx).issues = <<>>
    /\ Context(history[i].ctx).path = <<>>

\* the issue moved below a path, the issues of union branches it holds included
RECURSIVE Relocated(_, _)
Relocated(path, issue) ==
  [issue EXCEPT
     !.path = path \o @,
     !.info = IF issue.code = "invalid_union"
                THEN [unionErrors |->
                        [b \in 1..Len(@.unionErrors) |->
                           [i \in 1..Len(@.unionErrors[b]) |->
                              Relocated(path, @.unionErrors[b][i])]]]
                ELSE @]

\* what the node call appends when it is entered at the root instead
AddedAtRoot ==
  SubSeq(_parse(schema, input, [ctx0 EXCEPT !.path = <<>>]).ctx.issues,
         Len(ctx0.issues) + 1,
         Len(_parse(schema, input, [ctx0 EXCEPT !.path = <<>>]).ctx.issues))

\* C28: the issues a node appends when it is entered below a path are the
\* issues it appends at the root with that path in front: every issue,
\* those of union branches (in unionErrors and appended) and of intersection
\* sides included, carries the whole path from the root input
PathsCarryPrefix ==
  (NodeCalled /\ ~nodeRes.res.thrown) =>
    /\ Len(Added) = Len(AddedAtRoot)
    /\ \A i \in 1..Len(Added) : Added[i] = Relocated(ctx0.path, AddedAtRoot[i])

\* below a path, an object has reported a union at one field and an
\* intersection at another, with the issues of their branches and sides
ForkedIssuesBelowPath ==
  /\ NodeCalled /\ schema.kind = "object" /\ ctx0.path # <<>>
  /\ \E i \in 1..Len(Added) :
       /\ Added[i].code = "invalid_union"
       /\ Added[i].path = ctx0.path \o <<Key("b")>>
       /\ Added[i].info.unionErrors[1][1].path = Added[i].path
  /\ \E i \in 1..Len(Added) :
       /\ Added[i].code = "invalid_intersection"
       /\ i < Len(Added)
       /\ Added[i + 1].code # "invalid_intersection"
       /\ Added[i + 1].path = ctx0.path \o <<Key("a")>>

\* the node call on a context that holds no issue yet
AloneRes == _parse(schema, input, [ctx0 EXCEPT !.issues = <<>>])

\* C29: a set or map node whose collection satisfies the size rules and
\* whose elements are all valid returns success whatever issues the context
\* already holds; and a node that returns failure has appended at least one
\* issue during its own evaluation
OutcomeFromOwnInput ==
  (NodeCalled /\ ~nodeRes.res.thrown) =>
    /\ (schema.kind \in {"set", "map"} /\ AloneRes.ok /\ AloneRes.ctx.issues = <<>>) =>
         nodeRes.res.ok
    /\ ~nodeRes.res.ok => Added # <<>>

\* the part of C29 that does not depend on the issues already recorded: on
\* a context without issues a set or map node fails only with an issue
OutcomeFromOwnInputAlone ==
  (NodeCalled /\ ~nodeRes.res.thrown /\ ctx0.issues = <<>>
     /\ schema.kind \in {"set", "map"} /\ ~nodeRes.res.ok) => Added # <<>>

\* the inner (first) schema of a transform, refinement or pipeline, and what
\* it makes of the input on the context of the node call
Staged(s) == s.kind \in {"transform", "refine", "pipe"}
FirstStage(s) == IF s.kind = "pipe" THEN s.first ELSE s.inner
FirstRes == _parse(FirstStage(schema), input, ctx0)
\* the array without its uniqueness pass
ItemsRes == _parse([schema EXCEPT !.uniqueSelector = NoSelector], input, ctx0)
\* the issues the call appended below the path of the array
ItemIssues(res) ==
  SelectSeq(SubSeq(res.ctx.issues, Len(ctx0.issues) + 1, Len(res.ctx.issues)),
            LAMBDA issue : Len(issue.path) > Len(ctx0.path))
SelectorCalls(res) == SelectSeq(res.ctx.calls, LAMBDA call : call[1] = "selector")

\* C30: when the inner (first) schema of a transform, a refinement or a
\* pipeline has recorded an issue, the node returns failure with nothing
\* else done: the transform function, the predicate and the second stage
\* are not run; when an item of an array has recorded an issue, the
\* uniqueness selector is not called.  Both abortEarly settings.
RunOnlyOnClean ==
  NodeCalled =>
    /\ (Staged(schema) /\ ~FirstRes.thrown /\ FirstRes.ctx.issues # ctx0.issues) =>
         nodeRes.res = invalid(FirstRes.ctx)
    /\ (schema.kind = "array" /\ input.t = "array" /\ ~ItemsRes.thrown
          /\ ItemIssues(ItemsRes) # <<>>) =>
         SelectorCalls(nodeRes.res) = <<>>

\* the part of C30 that holds: the same under abortEarly=true, and under
\* either setting when the inner schema has returned failure
RunOnlyOnCleanAborting ==
  NodeCalled =>
    /\ (Staged(schema) /\ ~FirstRes.thrown /\ FirstRes.ctx.issues # ctx0.issues
          /\ (ctx0.abortEarly \/ ~FirstRes.ok)) =>
         nodeRes.res = invalid(FirstRes.ctx)
    /\ (schema.kind = "array" /\ input.t = "array" /\ ~ItemsRes.thrown
          /\ ItemIssues(ItemsRes) # <<>> /\ (ctx0.abortEarly \/ ~ItemsRes.ok)) =>
         SelectorCalls(nodeRes.res) = <<>>

(***************************************************************************)
(* The children of a composite node.                                       *)
(***************************************************************************)
Composite(s) == s.kind \in {"object", "array", "tuple", "record", "strictRecord", "set", "map"}
Child(segment, childSchema, value) == <<segment, childSchema, value>>

\* the key and the value of entry i are two children under one segment
Pairs(n, first, second) ==
  [j \in 1..(2 * n) |-> IF j % 2 = 1 THEN first[(j + 1) \div 2] ELSE second[j \div 2]]

\* the children a composite node has on an input of its own type, in the
\* order of its loop
Children(s, x) ==
  CASE s.kind = "object" /\ x.t = "object" ->
         [i \in 1..Len(SelectSeq(s.shape, LAMBDA f : hasOwn(x.props, f[1]))) |->
            Child(Key(SelectSeq(s.shape, LAMBDA f : hasOwn(x.props, f[1]))[i][1]),
                  SelectSeq(s.shape, LAMBDA f : hasOwn(x.props, f[1]))[i][2],
                  GetProp(x.props, SelectSeq(s.shape, LAMBDA f : hasOwn(x.props, f[1]))[i][1]))]
    [] s.kind = "array" /\ x.t = "array" ->
         [i \in 1..Len(x.items) |-> Child(Idx(i - 1), s.item, x.items[i])]
    [] s.kind = "tuple" /\ x.t = "array" /\ Len(x.items) = Len(s.items) ->
         [i \in 1..Len(x.items) |-> Child(Idx(i - 1), s.items[i], x.items[i])]
    [] s.kind = "record" /\ x.t = "object" ->
         [i \in 1..Len(x.props) |-> Child(Key(x.props[i][1]), s.valueSchema, x.props[i][2])]
    [] s.kind = "strictRecord" /\ x.t = "object" ->
         Pairs(Len(x.props),
               [i \in 1..Len(x.props) |->
                  Child(Key(x.props[i][1]), s.keySchema, Str(x.props[i][1]))],
               [i \in 1..Len(x.props) |->
                  Child(Key(x.props[i][1]), s.valueSchema, x.props[i][2])])
    [] s.kind = "set" /\ x.t = "set" ->
         [i \in 1..Len(x.members) |-> Child(Idx(i - 1), s.itemSchema, x.members[i])]
    [] s.kind = "map" /\ x.t = "map" ->
         Pairs(Len(x.entries),
               [i \in 1..Len(x.entries) |-> Child(Idx(i - 1), s.keySchema, x.entries[i][1])],
               [i \in 1..Len(x.entries) |-> Child(Idx(i - 1), s.valueSchema, x.entries[i][2])])
    [] OTHER -> <<>>

\* what a child makes of its value when it is evaluated below the path of
\* the node, on a context with the settings of the node call
ChildRes(child) ==
  _parse(child[2], child[3], [ctx0 EXCEPT !.path = @ \o <<child[1]>>, !.issues = <<>>])

\* the issues of the children from child i on, in child order
RECURSIVE ChildIssues(_, _)
ChildIssues(children, i) ==
  IF i > Len(children) THEN <<>>
  ELSE ChildRes(children[i]).ctx.issues \o ChildIssues(children, i + 1)

\* the elements of part occur in whole in the same order
RECURSIVE Within(_, _)
Within(part, whole) ==
  IF part = <<>> THEN TRUE
  ELSE IF whole = <<>> THEN FALSE
  ELSE IF Head(part) = Head(whole) THEN Within(Tail(part), Tail(whole))
  ELSE Within(part, Tail(whole))

NoChildThrows(children) == \A i \in 1..Len(children) : ~ChildRes(children[i]).thrown

\* C23: with abortEarly=false a composite node (object, array, tuple,
\* record, strict record, set, map) evaluates each of its children although
\* an earlier child has failed: the issues it appends contain the issues of
\* every child, in child order
AllChildrenReported ==
  (NodeCalled /\ ~ctx0.abortEarly /\ Composite(schema)
     /\ NoChildThrows(Children(schema, input))) =>
    Within(ChildIssues(Children(schema, input), 1), Added)

\* the part of C23 that holds: the same for every composite but the tuple
AllChildrenReportedUntupled ==
  (NodeCalled /\ ~ctx0.abortEarly /\ Composite(schema) /\ schema.kind # "tuple"
     /\ NoChildThrows(Children(schema, input))) =>
    Within(ChildIssues(Children(schema, input), 1), Added)

(***************************************************************************)
(* parseAsync on the event loop.  _parseAsync is an async function: it     *)
(* runs in its caller up to its first await and hands back a promise; the  *)
(* rest of it runs as a job of the microtask queue once the promise it     *)
(* awaits is settled.  Jobs run one at a time, in the order they were      *)
(* queued.  A frame is one activation of a _parseAsync that has awaited.   *)
(***************************************************************************)
\* the classes of the explored schemas that override _parseAsync; every
\* other class has the _parseAsync of BaseSchema, which runs _parse
AsyncKinds == {"refine", "transform", "array", "intersection"}

Resolved(value) == [resolved |-> TRUE, frame |-> 0, value |-> value]
Pending(f) == [resolved |-> FALSE, frame |-> f, value |-> NoResult]

\* slot: what the caller does with the promise ("inner", "item": awaits it;
\* "left", "right": hands it to Promise.all; "top": safeParseAsync awaits it)
Frame(s, x, h, parent, slot) ==
  [s |-> s, x |-> x, ctx |-> h, parent |-> parent, slot |-> slot, index |-> 0,
   output |-> <<>>, hasError |-> FALSE, leftCtx |-> 0, rightCtx |-> 0,
   left |-> NoResult, right |-> NoResult, leftRet |-> Pending(0), waiting |-> 0,
   settled |-> FALSE, done |-> FALSE]

\* "resume": the continuation of frame `frame` after its await; "element":
\* the reaction Promise.all put on the promise in `slot`
Job(kind, frame, slot, value) == [kind |-> kind, frame |-> frame, slot |-> slot, value |-> value]

\* safeParseAsync(input, options) at its call: ctx is context 1
Entered(options, config) ==
  [kind |-> "call", options |-> options, at |-> config, locales |-> config.locales,
   frames |-> <<>>,
   contexts |-> <<createParseContextFrom(getParseDefaults(config), options)>>,
   queue |-> <<>>, log |-> <<>>, ret |-> Pending(0), result |-> NoCall]

\* context h as the running code sees it: getLocaleRegistry() gives the
\* registry of the process as it is now
Live(st, h) == [st.contexts[h] EXCEPT !.locales = st.locales, !.calls = st.log]
Store(st, h, ctx) ==
  [st EXCEPT !.contexts[h] = [ctx EXCEPT !.calls = <<>>, !.locales = {}], !.log = ctx.calls]
Forked(st, h) ==
  [st EXCEPT !.contexts = Append(@, [fork(Live(st, h)) EXCEPT !.calls = <<>>, !.locales = {}])]
Framed(st, frame) == [st EXCEPT !.frames = Append(@, frame)]
Queued(st, job) == [st EXCEPT !.queue = Append(@, job)]

\* the promise in `slot` of frame f is settled with value: the reaction on
\* it is queued
Notify(st, f, slot, value) ==
  Queued(st, Job(IF slot \in {"left", "right"} THEN "element" ELSE "resume", f, slot, value))

\* `await promise` in frame f, promise being what the call just made
\* returned: a settled promise queues the continuation at once
Awaiting(st, f, slot) ==
  [(IF st.ret.resolved THEN Notify(st, f, slot, st.ret.value) ELSE st) EXCEPT !.ret = Pending(f)]

\* an async function returns r before its first await
Fulfilled(st, h, r) == [Store(st, h, r.ctx) EXCEPT !.ret = Resolved(Settled(r))]

\* frame f returns or throws r
Complete(st, f, r) ==
  Notify([Store(st, st.frames[f].ctx, r.ctx) EXCEPT !.frames[f].done = TRUE],
         st.frames[f].parent, st.frames[f].slot, Settled(r))

\* Promise.all([left, right]) in frame f, then await: a reaction is put on
\* each promise, the left one first
PromiseAll(st, f) ==
  [(IF st.ret.resolved
      THEN Notify(IF st.frames[f].leftRet.resolved
                    THEN Notify(st, f, "left", st.frames[f].leftRet.value) ELSE st,
                  f, "right", st.ret.value)
      ELSE IF st.frames[f].leftRet.resolved
        THEN Notify(st, f, "left", st.frames[f].leftRet.value) ELSE st)
     EXCEPT !.ret = Pending(f), !.frames[f].waiting = 2]

LeftCalled(st, f) == [st EXCEPT !.frames[f].leftRet = st.ret]

RECURSIVE Enter(_, _, _, _, _, _)
\* ctx.path.push(index); await this.item._parseAsync(input[index], ctx)
NextItem(st, f, index) ==
  Awaiting(Enter([Store(st, st.frames[f].ctx,
                        pathPush(Live(st, st.frames[f].ctx), Idx(index - 1)))
                    EXCEPT !.frames[f].index = index],
                 st.frames[f].s.item, st.frames[f].x.items[index], st.frames[f].ctx,
                 f, "item"),
           f, "item")

EnterArrayRules(st, s, x, h, parent, slot, run) ==
  IF run.aborted THEN Fulfilled(st, h, invalid(run.ctx))
  ELSE IF Len(x.items) = 0
    THEN Fulfilled(st, h, ArraySchemaItems(s, LoopState("none", run.ctx, <<>>, FALSE)))
  ELSE NextItem(Framed(Store(st, h, run.ctx), Frame(s, x, h, parent, slot)),
                Len(st.frames) + 1, 1)

\* leftCtx = ctx.fork(); rightCtx = ctx.fork(); both calls are made, then
\* Promise.all is awaited
EnterIntersection(st, s, x, h, parent, slot) ==
  PromiseAll(
    Enter(LeftCalled(
            Enter(Framed(Forked(Forked(st, h), h),
                         [Frame(s, x, h, parent, slot)
                            EXCEPT !.leftCtx = Len(st.contexts) + 1,
                                   !.rightCtx = Len(st.contexts) + 2]),
                  s.left, x, Len(st.contexts) + 1, Len(st.frames) + 1, "left"),
            Len(st.frames) + 1),
          s.right, x, Len(st.contexts) + 2, Len(st.frames) + 1, "right"),
    Len(st.frames) + 1)

\* s._parseAsync(x, ctx) is called from frame `parent`: the state when the
\* call hands back its promise, which is st.ret
Enter(st, s, x, h, parent, slot) ==
  CASE s.kind \in {"refine", "transform"} ->
         Awaiting(Enter(Framed(st, Frame(s, x, h, parent, slot)), s.inner, x, h,
                        Len(st.frames) + 1, "inner"),
                  Len(st.frames) + 1, "inner")
    [] s.kind = "array" ->
         IF x.t # "array"
           THEN Fulfilled(st, h, invalid(addIssue(Live(st, h), IssueInput("invalid_type",
                                  [expected |-> "array", received |-> typeOf(x)]))))
           ELSE EnterArrayRules(st, s, x, h, parent, slot,
                  RunRules([i \in 1..Len(s.rules) |-> ArrayRuleIssue(s.rules[i], Len(x.items))],
                           1, Live(st, h)))
    [] s.kind = "intersection" -> EnterIntersection(st, s, x, h, parent, slot)
    [] OTHER -> Fulfilled(st, h, _parse(s, x, Live(st, h)))

\* the loop of ArraySchema._parseAsync after the item at index; ctx is the
\* context after ctx.path.pop()
ArrayAdvance(st, f, ctx) ==
  IF st.frames[f].index + 1 > Len(st.frames[f].x.items)
    THEN Complete(st, f, ArraySchemaItems(st.frames[f].s,
                           LoopState("none", ctx, st.frames[f].output, st.frames[f].hasError)))
    ELSE NextItem(Store(st, st.frames[f].ctx, ctx), f, st.frames[f].index + 1)

ItemSettled(st, f, parsed) ==
  IF parsed.thrown THEN Complete(st, f, parsed)
  ELSE IF parsed.ok
    THEN ArrayAdvance([st EXCEPT !.frames[f].output = Append(@, parsed.value)], f,
                      pathPop(parsed.ctx))
  ELSE IF parsed.ctx.abortEarly THEN Complete(st, f, invalid(pathPop(parsed.ctx)))
  ELSE ArrayAdvance([st EXCEPT !.frames[f].output = Append(@, Undef),
                               !.frames[f].hasError = TRUE], f, pathPop(parsed.ctx))

\* the continuation of frame f; value is what its await gave
Resumed(st, f, value) ==
  CASE f = 0 -> [st EXCEPT !.result = safeParseResult(WithContext(value, Live(st, 1)))]
    [] f # 0 /\ st.frames[f].s.kind = "refine" ->
         Complete(st, f, RefinementSchemaParsed(st.frames[f].s,
                           WithContext(value, Live(st, st.frames[f].ctx))))
    [] f # 0 /\ st.frames[f].s.kind = "transform" ->
         Complete(st, f, TransformSchemaParsed(st.frames[f].s,
                           WithContext(value, Live(st, st.frames[f].ctx))))
    [] f # 0 /\ st.frames[f].s.kind = "array" ->
         ItemSettled(st, f, WithContext(value, Live(st, st.frames[f].ctx)))
    [] f # 0 /\ st.frames[f].s.kind = "intersection" ->
         IF value.thrown THEN Complete(st, f, throws(Live(st, st.frames[f].ctx)))
         ELSE Complete(st, f,
                IntersectionSchemaBoth(Live(st, st.frames[f].ctx),
                  WithContext(st.frames[f].left, Live(st, st.frames[f].leftCtx)),
                  WithContext(st.frames[f].right, Live(st, st.frames[f].rightCtx))))

\* the reaction of Promise.all on one of its two promises
ElementSettled(st, f, slot, value) ==
  IF st.frames[f].settled THEN st
  ELSE IF value.thrown
    THEN Queued([st EXCEPT !.frames[f].settled = TRUE], Job("resume", f, "all", value))
  ELSE IF st.frames[f].waiting = 1
    THEN Queued([st EXCEPT !.frames[f][slot] = value, !.frames[f].waiting = 0,
                           !.frames[f].settled = TRUE],
                Job("resume", f, "all", NoResult))
  ELSE [st EXCEPT !.frames[f][slot] = value, !.frames[f].waiting = 1]

\* the event loop takes the job at the head of the queue and runs it to its end
Ran(st, job) ==
  IF job.kind = "element" THEN ElementSettled(st, job.frame, job.slot, job.value)
  ELSE Resumed(st, job.frame, job.value)

AsyncSchemas ==
  { RefinementSchema(sMin2, "chkTrue", NoMessage),
    TransformSchema(RefinementSchema(sStr, "chkMsg", NoMessage), "trConst"),
    ArraySchema(RefinementSchema(sMin2, "chkFalse", NoMessage), <<RuleMin(1)>>, <<"selSelf">>),
    ArraySchema(sMin2, <<RuleMax(1)>>, NoSelector),
    IntersectionSchema(sMin2, RefinementSchema(sStr, "chkTrue", NoMessage)),
    IntersectionSchema(RefinementSchema(RefinementSchema(sStr, "chkTrue", NoMessage),
                                        "chkFalse", <<"no">>),
                       RefinementSchema(sMin2, "chkMsg", NoMessage)),
    IntersectionSchema(ArraySchema(TransformSchema(sStr, "trConst"), <<>>, NoSelector),
                       ArraySchema(RefinementSchema(sStr, "chkTrue", NoMessage), <<>>,
                                   NoSelector)),
    IntersectionSchema(TransformSchema(sStr, "trThrow"),
                       IntersectionSchema(RefinementSchema(sStr, "chkTrue", NoMessage), sMin2)),
    ArraySchema(IntersectionSchema(RefinementSchema(sStr, "chkTrue", NoMessage),
                                   RefinementSchema(sMin2, "chkThrow", NoMessage)),
                <<>>, NoSelector) }

AsyncInputs == {Str("a"), Str("user"), Num(1), Arr(<<Str("a"), Str("bb")>>), Arr(<<>>)}
AsyncOptions ==
  { [abortEarly |-> a, locale |-> l, errorMap |-> NoMap] :
      a \in AbortOptions, l \in {"unset", "fr"} }

\* the configuration object of the process, and the number of changes made to it
Globals(config, changes) ==
  [locale |-> config.locale, abortEarly |-> config.abortEarly, errorMap |-> config.errorMap,
   locales |-> config.locales, changes |-> changes]

AsyncInit ==
  /\ \E s \in AsyncSchemas, x \in AsyncInputs : schema = s /\ input = x
  /\ ctx0 = NoContext /\ nodeRes = NoCall
  /\ safeRes = [a \in AbortOptions |-> NoCall]
  /\ parseRes = [a \in AbortOptions |-> NoCall]
  /\ NoBuilder /\ NoRegex /\ NoError /\ NoTasks /\ NoContexts
  /\ globals = Globals(globalConfig, 0)
  /\ pending = NoCall

notAsync == <<parseVars, builderVars, regexVars, errorVars, taskVars, contextVars>>

\* schema.safeParseAsync(input, options) up to its await
CallAsync(options) ==
  /\ pending = NoCall
  /\ pending' = Awaiting(Enter(Entered(options, globals), schema, input, 1, 0, "top"), 0, "top")
  /\ UNCHANGED <<notAsync, globals>>

RunJob ==
  /\ pending # NoCall
  /\ pending.queue # <<>>
  /\ pending' = Ran([pending EXCEPT !.queue = Tail(@), !.locales = globals.locales],
                    Head(pending.queue))
  /\ UNCHANGED <<notAsync, globals>>

AsyncNext ==
  \/ \E options \in AsyncOptions : CallAsync(options)
  \/ RunJob

AsyncSpec == AsyncInit /\ [][AsyncNext]_vars

AsyncCalled == pending # NoCall
AsyncDone == AsyncCalled /\ pending.result # NoCall
\* the child evaluations that have been started and have not completed
InFlight == {f \in 1..Len(pending.frames) : ~pending.frames[f].done}

\* C21: during safeParseAsync a node starts the evaluation of a child only
\* when the evaluation of its previous child has completed: no two child
\* evaluations of one node are in flight at once, the two sides of an
\* intersection included
OneChildInFlight ==
  AsyncCalled =>
    \A f \in InFlight, g \in InFlight :
      (f # g /\ pending.frames[f].parent # 0) =>
        pending.frames[f].parent # pending.frames[g].parent

\* the part of C21 that holds: the same for every node but an intersection
OneItemInFlight ==
  AsyncCalled =>
    \A f \in InFlight, g \in InFlight :
      (f # g /\ pending.frames[f].parent # 0
         /\ pending.frames[pending.frames[f].parent].s.kind # "intersection") =>
        pending.frames[f].parent # pending.frames[g].parent

\* schema.safeParse(input, options) under the configuration of the call
SyncOutcome ==
  safeParseResult(_parse(schema, input,
                         createParseContextFrom(getParseDefaults(pending.at), pending.options)))

\* C22: safeParseAsync resolves to what safeParse returns, the success flag,
\* the data and the issues in their order, and the callbacks of the
\* children run in the same order in both modes (declaration order)
AsyncSameAsSync == AsyncDone => pending.result = SyncOutcome

\* the part of C22 that holds: the flag, the data and the issues are the same
AsyncSameOutcome ==
  AsyncDone =>
    /\ pending.result.kind = SyncOutcome.kind
    /\ pending.result.data = SyncOutcome.data
    /\ pending.result.issues = SyncOutcome.issues

(***************************************************************************)
(* The configuration of the process changes while a parseAsync is under    *)
(* way: configure, setLocale, setGlobalErrorMap and registerLocale are     *)
(* called between the jobs of the call.                                    *)
(***************************************************************************)
MaxChanges == 2    \* calls that change the configuration

NoKey == "nokey"
\* ConfigOptions: locale is "unset" or a name, abortEarly is "unset", "true"
\* or "false", errorMap is NoKey (no such key), NoMap (undefined) or a name
configure(config, options) ==
  [config EXCEPT
     !.locale = IF options.locale # "unset" THEN options.locale ELSE @,
     !.abortEarly = IF options.abortEarly # "unset" THEN options.abortEarly = "true" ELSE @,
     !.errorMap = IF options.errorMap # NoKey THEN options.errorMap ELSE @]
setLocale(config, locale) == [config EXCEPT !.locale = locale]
setGlobalErrorMap(config, map) == [config EXCEPT !.errorMap = map]
\* the registry is the Map object that getLocaleRegistry() hands out
registerLocale(config, locale) == [config EXCEPT !.locales = @ \cup {locale}]

Changed(config) == [config EXCEPT !.changes = @ + 1]

ConfigSchemas ==
  { RefinementSchema(sMin2, "chkFalse", NoMessage),
    ArraySchema(RefinementSchema(sMin2, "chkTrue", NoMessage), <<RuleMin(3)>>, NoSelector),
    IntersectionSchema(RefinementSchema(sMin2, "chkTrue", NoMessage), sNum) }
ConfigInputs == {Str("a"), Arr(<<Str("a"), Str("b")>>)}
ConfigLocales == {"en", "fr"}
ConfigMaps == {NoMap, "globalMap"}
ConfigOptions ==
  { [locale |-> l, abortEarly |-> a, errorMap |-> m] :
      l \in {"unset", "fr"}, a \in {"unset", "true"}, m \in {NoKey, "globalMap"} }

ConfigInit ==
  /\ \E s \in ConfigSchemas, x \in ConfigInputs : schema = s /\ input = x
  /\ ctx0 = NoContext /\ nodeRes = NoCall
  /\ safeRes = [a \in AbortOptions |-> NoCall]
  /\ parseRes = [a \in AbortOptions |-> NoCall]
  /\ NoBuilder /\ NoRegex /\ NoError /\ NoTasks /\ NoContexts
  /\ globals = Globals(globalConfig, 0)
  /\ pending = NoCall

MayChange == globals.changes < MaxChanges

Configure(options) ==
  /\ MayChange
  /\ globals' = Changed(configure(globals, options))
  /\ UNCHANGED <<notAsync, pending>>

SetLocale(locale) ==
  /\ MayChange
  /\ globals' = Changed(setLocale(globals, locale))
  /\ UNCHANGED <<notAsync, pending>>

SetGlobalErrorMap(map) ==
  /\ MayChange
  /\ globals' = Changed(setGlobalErrorMap(globals, map))
  /\ UNCHANGED <<notAsync, pending>>

RegisterLocale(locale) ==
  /\ MayChange
  /\ globals' = Changed(registerLocale(globals, locale))
  /\ UNCHANGED <<notAsync, pending>>

ConfigNext ==
  \/ \E options \in AsyncOptions : CallAsync(options)
  \/ RunJob
  \/ \E options \in ConfigOptions : Configure(options)
  \/ \E locale \in ConfigLocales : SetLocale(locale)
  \/ \E map \in ConfigMaps : SetGlobalErrorMap(map)
  \/ \E locale \in ConfigLocales : RegisterLocale(locale)

ConfigSpec == ConfigInit /\ [][ConfigNext]_vars

\* the context the call created, and what the call makes of the input when
\* the configuration stays as it was when that context was created
CreatedContext ==
  [createParseContextFrom(getParseDefaults(pending.at), pending.options)
     EXCEPT !.locales = pending.at.locales]
FrozenOutcome == safeParseResult(_parse(schema, input, CreatedContext))

\* the configuration was changed after the call created its context
ChangedSince == pending.at.changes < globals.changes

\* C26: a parse call reads the configuration of the process only when its
\* context is created: changes made by configure, setLocale,
\* setGlobalErrorMap or registerLocale while the call is suspended change
\* neither the outcome nor the issues of the call, their messages included
ConfigReadAtCreation ==
  AsyncDone =>
    /\ pending.result.kind = FrozenOutcome.kind
    /\ pending.result.data = FrozenOutcome.data
    /\ pending.result.issues = FrozenOutcome.issues

\* the parts of C26 that hold: the locale, the abortEarly flag and the two
\* error maps of every context of the call are those of its creation
SettingsReadAtCreation ==
  AsyncCalled =>
    \A h \in 1..Len(pending.contexts) :
      /\ pending.contexts[h].locale = CreatedContext.locale
      /\ pending.contexts[h].abortEarly = CreatedContext.abortEarly
      /\ pending.contexts[h].parseErrorMap = CreatedContext.parseErrorMap
      /\ pending.contexts[h].globalErrorMap = CreatedContext.globalErrorMap

\* the outcome is that of the unchanged configuration as long as no locale
\* was registered since
OutcomeButRegistry ==
  (AsyncDone /\ pending.at.locales = globals.locales) =>
    /\ pending.result.kind = FrozenOutcome.kind
    /\ pending.result.data = FrozenOutcome.data
    /\ pending.result.issues = FrozenOutcome.issues

\* an issue that was appended stays as it is
IssuesKept ==
  [][(pending # NoCall /\ pending' # NoCall) =>
       \A h \in 1..Len(pending.contexts) :
         /\ Len(pending'.contexts[h].issues) >= Len(pending.contexts[h].issues)
         /\ SubSeq(pending'.contexts[h].issues, 1, Len(pending.contexts[h].issues))
              = pending.contexts[h].issues]_vars

====
